---------------------------- MODULE Spec2Model ----------------------------
(***************************************************************************)
(* The conversation-session controller of the chat front end               *)
(* (src/src/App.jsx, with the controls of                                  *)
(* src/src/components/ChatInterface.jsx).                                  *)
(*                                                                         *)
(* Every React state slot the handlers read or write is a variable.  An    *)
(* async handler is cut at its awaits: the invocation runs up to the first *)
(* await, and each later step is the continuation that runs when the       *)
(* awaited request settles.  A running handler is a record in `tasks'      *)
(* holding the values its closure captured at the render it was invoked    *)
(* from, so that a continuation reads the captured values, not the current *)
(* ones, exactly as the JavaScript closure does.  The backend is outside   *)
(* the repository: every response is a nondeterministic choice over a      *)
(* bounded set of bodies, or a failure.                                    *)
(*                                                                         *)
(* JavaScript null/undefined is Null (the empty tuple) and a present value *)
(* v is Some(v).  A text built by a template literal is the tuple of its   *)
(* pieces, the empty text being the empty tuple.                           *)
(***************************************************************************)
EXTENDS Integers, Sequences, FiniteSets, TLC

(* ------------------------------ bounds --------------------------------- *)

\* Date.now() takes the values 1..MaxTime
MaxTime == 2
\* number of handlers and effects that may be awaiting a request at once,
\* beside initializeApp
MaxInFlight == 2
\* the longest message list the backend returns
MaxMsgs == 2

(* --------------------------- value domains ----------------------------- *)

Null == <<>>
Some(v) == <<v>>
Val(o) == o[1]

EmptyText == <<>>

Slots == 1..MaxInFlight
Times == 1..MaxTime

RECURSIVE SeqsUpTo(_, _)
SeqsUpTo(S, n) ==
  IF n = 0 THEN {<<>>}
  ELSE LET shorter == SeqsUpTo(S, n - 1)
       IN  shorter \cup {Append(s, x) : s \in {q \in shorter : Len(q) = n - 1}, x \in S}

\* characters of a prompt: a blank and a letter
Chars == {" ", "a"}
\* the texts typed: empty, blank only, and a letter after a blank
Prompts == {<<>>, <<" ", " ">>, <<" ", "a">>}

\* Message.role
Roles == {"user", "assistant"}
MessageLists == SeqsUpTo(Roles, MaxMsgs)

\* conversation identifiers: `conversation_${Date.now()}` of this session,
\* and two conversations stored by earlier sessions (earlier time stamps)
ConversationName(t) == <<"conversation_", t>>
StoredConversation == ConversationName(0)
OlderConversation == ConversationName(-1)
ConversationIds ==
  {StoredConversation, OlderConversation} \cup {ConversationName(t) : t \in Times}

\* GET /api/conversations: the catalog, by conversation_id
Catalogs == {<<>>, <<StoredConversation>>, <<StoredConversation, OlderConversation>>}

DocumentIds == {"d1", "d2"}
\* GET /api/documents: the document list, by document_id
DocumentLists == {<<>>, <<"d1">>, <<"d2">>, <<"d1", "d2">>}

\* optional collections of an /api/llm or /api/search response
ResultBodies == {Null, Some(<<>>), Some(<<"result">>)}
StepBodies == {Null, Some(<<"step">>)}
SourceBodies == {Null, Some(<<"source">>)}
\* updated_context / messages of a response: absent, or a message list
ContextBodies == {Null} \cup {Some(m) : m \in MessageLists}

\* err.response.data.detail of an error response
Details == {Null, Some("detail")}
\* res.data.content of GET /api/documents/:id
ContentBodies == {Null, Some(EmptyText), Some(<<"content">>)}

\* JavaScript truthiness of an optional text
Truthy(o) == o # Null /\ Val(o) # EmptyText

Range(s) == {s[i] : i \in DOMAIN s}

(* -------------------- JSON.stringify and JSON.parse -------------------- *)

\* A JSON value is <<"str", chars>>, <<"null", <<>>>>, <<"arr", values>> or
\* <<"obj", members>>, a member being <<key chars, value>>.  A text is the
\* sequence of its characters.

\* mutant: nothing is escaped
EscapeNothing(chars) == chars

\* the characters of a string literal: a quote and a backslash are escaped
RECURSIVE Escape(_)
Escape(chars) ==
  IF chars = <<>> THEN <<>>
  ELSE (IF Head(chars) \in {"\"", "\\"} THEN <<"\\", Head(chars)>> ELSE <<Head(chars)>>)
         \o Escape(Tail(chars))

Quoted(chars) == <<"\"">> \o Escape(chars) \o <<"\"">>

\* a line break followed by n levels of the two-space indentation
RECURSIVE NewLine(_)
NewLine(n) == IF n = 0 THEN <<"\n">> ELSE NewLine(n - 1) \o <<" ", " ">>

\* JSON.stringify(value, null, 2) at indentation level n
RECURSIVE Stringify(_, _)
RECURSIVE StringifyItems(_, _, _, _)
StringifyItems(kind, items, k, n) ==
  LET item == IF kind = "arr"
                THEN Stringify(items[k], n)
                ELSE Quoted(items[k][1]) \o <<":", " ">> \o Stringify(items[k][2], n)
  IN  NewLine(n) \o item
        \o (IF k = Len(items) THEN <<>> ELSE <<",">> \o StringifyItems(kind, items, k + 1, n))

Stringify(value, n) ==
  CASE value[1] = "str"  -> Quoted(value[2])
    [] value[1] = "null" -> <<"n", "u", "l", "l">>
    [] value[1] = "arr"  ->
         IF value[2] = <<>> THEN <<"[", "]">>
         ELSE <<"[">> \o StringifyItems("arr", value[2], 1, n + 1) \o NewLine(n) \o <<"]">>
    [] OTHER ->
         IF value[2] = <<>> THEN <<"{", "}">>
         ELSE <<"{">> \o StringifyItems("obj", value[2], 1, n + 1) \o NewLine(n) \o <<"}">>

\* the result of a parsing step: the value read and the position after it,
\* or a syntax error
Parsed(v, p) == [ok |-> TRUE, v |-> v, p |-> p]
SyntaxError == [ok |-> FALSE, v |-> <<>>, p |-> 0]

RECURSIVE SkipSpace(_, _)
SkipSpace(t, p) ==
  IF p <= Len(t) /\ t[p] \in {" ", "\n"} THEN SkipSpace(t, p + 1) ELSE p

\* the rest of a string literal, from position p, after the characters acc
RECURSIVE ParseString(_, _, _)
ParseString(t, p, acc) ==
  IF p > Len(t) \/ t[p] = "\n" THEN SyntaxError
  ELSE IF t[p] = "\"" THEN Parsed(acc, p + 1)
  ELSE IF t[p] = "\\"
    THEN IF p + 1 <= Len(t) /\ t[p + 1] \in {"\"", "\\"}
           THEN ParseString(t, p + 2, Append(acc, t[p + 1]))
           ELSE SyntaxError
  ELSE ParseString(t, p + 1, Append(acc, t[p]))

RECURSIVE ParseValue(_, _)
RECURSIVE ParseElements(_, _, _)
RECURSIVE ParseMembers(_, _, _)

\* the elements of an array after the elements acc, up to the closing bracket
ParseElements(t, p, acc) ==
  LET r == ParseValue(t, p)
      q == SkipSpace(t, r.p)
  IN  IF ~r.ok \/ q > Len(t) THEN SyntaxError
      ELSE IF t[q] = "," THEN ParseElements(t, q + 1, Append(acc, r.v))
      ELSE IF t[q] = "]" THEN Parsed(<<"arr", Append(acc, r.v)>>, q + 1)
      ELSE SyntaxError

\* the members of an object after the members acc, up to the closing brace
ParseMembers(t, p, acc) ==
  LET k == SkipSpace(t, p)
      key == IF k <= Len(t) /\ t[k] = "\"" THEN ParseString(t, k + 1, <<>>) ELSE SyntaxError
      c == SkipSpace(t, key.p)
      r == IF key.ok /\ c <= Len(t) /\ t[c] = ":" THEN ParseValue(t, c + 1) ELSE SyntaxError
      q == SkipSpace(t, r.p)
  IN  IF ~r.ok \/ q > Len(t) THEN SyntaxError
      ELSE IF t[q] = "," THEN ParseMembers(t, q + 1, Append(acc, <<key.v, r.v>>))
      ELSE IF t[q] = "}" THEN Parsed(<<"obj", Append(acc, <<key.v, r.v>>)>>, q + 1)
      ELSE SyntaxError

ParseValue(t, p0) ==
  LET p == SkipSpace(t, p0)
      q == SkipSpace(t, p + 1)
  IN  IF p > Len(t) THEN SyntaxError
      ELSE CASE t[p] = "\"" ->
                  LET r == ParseString(t, p + 1, <<>>)
                  IN  IF r.ok THEN Parsed(<<"str", r.v>>, r.p) ELSE SyntaxError
             [] t[p] = "n" ->
                  IF p + 3 <= Len(t) /\ SubSeq(t, p, p + 3) = <<"n", "u", "l", "l">>
                    THEN Parsed(<<"null", <<>>>>, p + 4) ELSE SyntaxError
             [] t[p] = "[" ->
                  IF q <= Len(t) /\ t[q] = "]" THEN Parsed(<<"arr", <<>>>>, q + 1)
                  ELSE ParseElements(t, p + 1, <<>>)
             [] t[p] = "{" ->
                  IF q <= Len(t) /\ t[q] = "}" THEN Parsed(<<"obj", <<>>>>, q + 1)
                  ELSE ParseMembers(t, p + 1, <<>>)
             [] OTHER -> SyntaxError

\* JSON.parse(text): the value, or Null when it throws a SyntaxError
JSONParse(t) ==
  LET r == ParseValue(t, 1)
  IN  IF r.ok /\ SkipSpace(t, r.p) > Len(t) THEN Some(r.v) ELSE Null

\* What the export endpoint may answer: a conversation whose title has a
\* quote, with an absent field, one message with a backslash and an empty
\* list.
Snapshots ==
  { <<"obj", << <<<<"t">>, <<"str", <<"a", "\"">>>>>>,
                <<<<"n">>, <<"null", <<>>>>>>,
                <<<<"m">>, <<"arr", << <<"obj", << <<<<"r">>, <<"str", <<"\\">>>>>> >>>> >>>>>>,
                <<<<"e">>, <<"arr", <<>>>>>> >>>> }

\* what the backend may answer: the bodies each specification draws from
Backend ==
  [documents |-> DocumentLists, catalogs |-> Catalogs, contexts |-> ContextBodies,
   results |-> ResultBodies, steps |-> StepBodies, sources |-> SourceBodies,
   details |-> Details, contents |-> ContentBodies, snapshots |-> Snapshots]

(* ----------------------------- variables ------------------------------- *)

VARIABLES
  prompt, conversationId, conversationHistory, hasStartedConversation,
  searchResults, reasoningSteps, sourcesUsed,
  availableDocuments, selectedDocument, includeDocument,
  file,         \* the file of the file state slot, Null before any was picked
  docText,      \* the text the latest upload extracted
  allConversations,
  llmLoading, docLoading, searchLoading,
  llmError, docError, searchError,
  toolsMenuOpen,
  now,          \* the value Date.now() returns
  initializing, \* the request initializeApp awaits, "done" after it returned
  tasks,        \* the async handlers and effects awaiting a request
  lastStep,     \* history variable: the handler step taken last
  audit         \* history variable: from, the conversation whose request
                \* produced the current message list (Null after a local
                \* reset); switch, what became of the own request of the
                \* latest handleSwitchConversation; exported, the body of
                \* the latest export response; file, the text of the file
                \* offered for download from it

session == <<prompt, conversationId, conversationHistory, hasStartedConversation>>
panels == <<searchResults, reasoningSteps, sourcesUsed>>
documents == <<availableDocuments, selectedDocument, includeDocument>>
catalog == <<allConversations>>
loading == <<llmLoading, docLoading, searchLoading>>
errors == <<llmError, docError, searchError>>

vars == <<session, panels, documents, file, docText, catalog, loading, errors,
          toolsMenuOpen, now, initializing, tasks, lastStep, audit>>

(* ------------------------------- tasks --------------------------------- *)

\* kind: the handler; pc: the request it awaits; p, c, sel, inc: the prompt,
\* conversationId, selectedDocument and includeDocument its closure captured;
\* arg: its argument; req: the conversation_id of the request body it sent;
\* ctx: whether that body carries document_context; tid: the conversation
\* generateTitle was called with.
Idle == [kind |-> "idle", pc |-> "", p |-> <<>>, c |-> Null, sel |-> Null,
         inc |-> FALSE, arg |-> Null, req |-> Null, ctx |-> FALSE, tid |-> Null]

Task(kind, pc) == [Idle EXCEPT !.kind = kind, !.pc = pc]

FreeSlots(ts) == {i \in Slots : ts[i].kind = "idle"}
Running(kind) == {i \in Slots : tasks[i].kind = kind}
At(i, kind, pc) == tasks[i].kind = kind /\ tasks[i].pc = pc

Lowest(S) == CHOOSE i \in S : \A j \in S : i <= j

Spawn(ts, t) == [ts EXCEPT ![Lowest(FreeSlots(ts))] = t]
Finish(ts, i) == [ts EXCEPT ![i] = Idle]

(* -------------------------- effects (useEffect) ------------------------ *)

\* useEffect(..., [conversationId]): after a render in which conversationId
\* changed to a non-null value, loadConversationHistory() runs with the new
\* value in its closure and awaits GET /api/conversations/:id.
ConversationIdEffect(ts, new) ==
  IF new # conversationId /\ new # Null
    THEN Spawn(ts, [Task("loadConversationHistory", "fetch") EXCEPT !.c = new])
    ELSE ts

\* the effect needs a slot to await in
EffectFits(ts, new) ==
  (new # conversationId /\ new # Null) => FreeSlots(ts) # {}

\* mutant: setConversationHistory(h) without the conversationHistory effect
SetConversationHistoryOnly(h, from) ==
  /\ conversationHistory' = h
  /\ UNCHANGED hasStartedConversation
  /\ audit' = [audit EXCEPT !.from = from]

\* setConversationHistory(h), with useEffect(..., [conversationHistory]):
\* setHasStartedConversation(conversationHistory.length > 0)
SetConversationHistory(h, from) ==
  /\ conversationHistory' = h
  /\ hasStartedConversation' = (Len(h) > 0)
  /\ audit' = [audit EXCEPT !.from = from]

KeepConversationHistory ==
  UNCHANGED <<conversationHistory, hasStartedConversation, audit>>

\* `conversation_${Date.now()}`
NewConversationId == ConversationName(now)

\* x || y on optional values
OrElse(x, y) == IF x # Null THEN x ELSE y

(* -------------------------------- Init --------------------------------- *)

\* the useState initial values, after the mount effect has called
\* initializeApp(), which awaits its first request (GET /api/documents)
Init ==
  /\ prompt = EmptyText
  /\ conversationId = Null
  /\ conversationHistory = <<>>
  /\ hasStartedConversation = FALSE
  /\ searchResults = Null
  /\ reasoningSteps = <<>>
  /\ sourcesUsed = <<>>
  /\ availableDocuments = <<>>
  /\ selectedDocument = Null
  /\ includeDocument = FALSE
  /\ allConversations = <<>>
  /\ llmLoading = FALSE
  /\ docLoading = FALSE
  /\ searchLoading = FALSE
  /\ llmError = EmptyText
  /\ docError = EmptyText
  /\ searchError = EmptyText
  /\ toolsMenuOpen = FALSE
  /\ now = 1
  /\ file = Null
  /\ docText = EmptyText
  /\ initializing = "documents"
  /\ tasks = [i \in Slots |-> Idle]
  /\ lastStep = "mount"
  /\ audit = [from |-> Null, switch |-> "none", exported |-> Null, file |-> Null]

\* time passes
Tick ==
  /\ now < MaxTime
  /\ now' = now + 1
  /\ UNCHANGED <<file, docText, session, panels, documents, catalog, loading, errors,
                 toolsMenuOpen, initializing, tasks, lastStep, audit>>

(* --------------------------- initializeApp ----------------------------- *)

\* mutant: loadCacheStats() is called without awaiting loadAllConversations()
InitDocumentsSettleSkipsAhead(ok, docs) ==
  /\ initializing = "documents"
  /\ availableDocuments' = IF ok THEN docs ELSE <<>>
  /\ initializing' = "cacheStats"
  /\ lastStep' = IF ok THEN "initializeApp:documents" ELSE "initializeApp:documentsFailed"
  /\ UNCHANGED <<session, panels, selectedDocument, includeDocument, catalog,
                 loading, errors, toolsMenuOpen, now, file, docText, tasks, audit>>

\* loadAvailableDocuments() settles: setAvailableDocuments(res.data.documents
\* || []), or [] when the request failed; initializeApp goes on to
\* loadAllConversations()
InitDocumentsSettle(ok, docs) ==
  /\ initializing = "documents"
  /\ availableDocuments' = IF ok THEN docs ELSE <<>>
  /\ initializing' = "conversations"
  /\ lastStep' = IF ok THEN "initializeApp:documents" ELSE "initializeApp:documentsFailed"
  /\ UNCHANGED <<session, panels, selectedDocument, includeDocument, catalog,
                 loading, errors, toolsMenuOpen, now, file, docText, tasks, audit>>

\* loadAllConversations() settles; initializeApp goes on to loadCacheStats()
InitConversationsSettle(ok, convs) ==
  /\ initializing = "conversations"
  /\ allConversations' = IF ok THEN convs ELSE <<>>
  /\ initializing' = "cacheStats"
  /\ lastStep' = IF ok THEN "initializeApp:conversations"
                       ELSE "initializeApp:conversationsFailed"
  /\ UNCHANGED <<session, panels, documents, loading, errors,
                 toolsMenuOpen, now, file, docText, tasks, audit>>

\* mutant: a failed loadCacheStats ends initializeApp
InitCacheStatsSettleAborts(ok) ==
  /\ initializing = "cacheStats"
  /\ EffectFits(tasks, NewConversationId)
  /\ conversationId' = IF ok THEN NewConversationId ELSE conversationId
  /\ SetConversationHistory(<<>>, Null)
  /\ initializing' = "done"
  /\ tasks' = IF ok THEN ConversationIdEffect(tasks, NewConversationId) ELSE tasks
  /\ lastStep' = IF ok THEN "initializeApp:done" ELSE "initializeApp:doneCacheFailed"
  /\ UNCHANGED <<prompt, panels, documents, allConversations, loading, errors,
                 toolsMenuOpen, now, file, docText>>

\* loadCacheStats() settles (the statistics are only displayed and are not
\* modelled; a failure is only logged); initializeApp then
\* sets a new conversation id and an empty message list, in both branches of
\* `conversations.length === 0`
InitCacheStatsSettle(ok) ==
  /\ initializing = "cacheStats"
  /\ EffectFits(tasks, NewConversationId)
  /\ conversationId' = NewConversationId
  /\ SetConversationHistory(<<>>, Null)
  /\ initializing' = "done"
  /\ tasks' = ConversationIdEffect(tasks, NewConversationId)
  /\ lastStep' = IF ok THEN "initializeApp:done" ELSE "initializeApp:doneCacheFailed"
  /\ UNCHANGED <<prompt, panels, documents, allConversations, loading, errors,
                 toolsMenuOpen, now, file, docText>>

(* ----------------------- loadConversationHistory ----------------------- *)

\* GET /api/conversations/:id of the conversationId effect settles:
\* setConversationHistory(res.data.messages || []), or [] on failure
LoadConversationHistorySettle(i, ok, body) ==
  /\ At(i, "loadConversationHistory", "fetch")
  /\ IF ok THEN SetConversationHistory(Val(OrElse(body, Some(<<>>))), tasks[i].c)
           ELSE SetConversationHistory(<<>>, Null)
  /\ tasks' = Finish(tasks, i)
  /\ lastStep' = IF ok THEN "loadConversationHistory:loaded"
                       ELSE "loadConversationHistory:failed"
  /\ UNCHANGED <<prompt, conversationId, panels, documents, catalog, loading,
                 errors, toolsMenuOpen, now, file, docText, initializing>>

Bootstrap(B) ==
  \/ \E ok \in BOOLEAN, docs \in B.documents : InitDocumentsSettle(ok, docs)
  \/ \E ok \in BOOLEAN, convs \in B.catalogs : InitConversationsSettle(ok, convs)
  \/ \E ok \in BOOLEAN : InitCacheStatsSettle(ok)
  \/ \E i \in Slots, ok \in BOOLEAN, body \in B.contexts : LoadConversationHistorySettle(i, ok, body)

(* ------------------------------ the prompt ----------------------------- *)

\* String.prototype.trim on a text of Chars
RECURSIVE TrimStart(_)
TrimStart(s) == IF s # <<>> /\ Head(s) = " " THEN TrimStart(Tail(s)) ELSE s

RECURSIVE TrimEnd(_)
TrimEnd(s) ==
  IF s # <<>> /\ s[Len(s)] = " " THEN TrimEnd(SubSeq(s, 1, Len(s) - 1)) ELSE s

\* mutant: the text is tested as typed
Untrimmed(s) == s

Trim(s) == TrimEnd(TrimStart(s))

\* <textarea disabled={llmLoading || docLoading || searchLoading}>
TextareaEnabled == ~(llmLoading \/ docLoading \/ searchLoading)

\* mutant: the send button ignores the loading flags
SendEnabledWhileLoading == Trim(prompt) # EmptyText

\* send button: disabled={!prompt.trim() || llmLoading || docLoading}
SendEnabled == Trim(prompt) # EmptyText /\ ~llmLoading /\ ~docLoading

\* search button of the empty-state layout:
\* disabled={!prompt.trim() || searchLoading}
SearchButtonEnabled ==
  ~hasStartedConversation /\ Trim(prompt) # EmptyText /\ ~searchLoading

\* textarea onChange: setPrompt(e.target.value)
TypePrompt(text) ==
  /\ TextareaEnabled
  /\ text # prompt
  /\ prompt' = text
  /\ lastStep' = "setPrompt"
  /\ UNCHANGED <<conversationId, conversationHistory, hasStartedConversation,
                 panels, documents, catalog, loading, errors, toolsMenuOpen,
                 now, file, docText, initializing, tasks, audit>>

(* -------------------------- handlePromptSubmit ------------------------- *)

\* the request body's conversation_id and generateTitle's argument:
\* conversationId || `conversation_${Date.now()}`, on the captured value
RequestConversationId(captured) == OrElse(captured, NewConversationId)

\* mutant: sourcesUsed is left as the previous exchange set it
SubmitClearsAllButSources ==
  /\ llmError' = EmptyText
  /\ searchResults' = Null
  /\ reasoningSteps' = <<>>
  /\ UNCHANGED sourcesUsed

\* setLlmError(""); setSearchResults(null); setReasoningSteps([]);
\* setSourcesUsed([])
SubmitClears ==
  /\ llmError' = EmptyText
  /\ searchResults' = Null
  /\ reasoningSteps' = <<>>
  /\ sourcesUsed' = <<>>

\* handlePromptSubmit() up to its first await: either
\* getDocumentContent(selectedDocument.document_id) or axios.post("/api/llm")
HandlePromptSubmit ==
  IF Trim(prompt) = EmptyText
    THEN /\ lastStep' = "handlePromptSubmit:ignored"
         /\ UNCHANGED <<session, panels, documents, catalog, loading, errors,
                        toolsMenuOpen, now, file, docText, initializing, tasks, audit>>
    ELSE LET id == OrElse(conversationId, NewConversationId)
             captured == [Task("handlePromptSubmit", "llm") EXCEPT
                            !.p = prompt, !.c = conversationId,
                            !.sel = selectedDocument, !.inc = includeDocument]
             awaiting ==
               IF includeDocument /\ selectedDocument # Null
                 THEN [captured EXCEPT !.pc = "documentContent"]
                 ELSE [captured EXCEPT !.req = RequestConversationId(conversationId)]
         IN  /\ FreeSlots(tasks) # {}
             /\ EffectFits(Spawn(tasks, awaiting), id)
             /\ conversationId' = id
             /\ llmLoading' = TRUE
             /\ SubmitClears
             /\ toolsMenuOpen' = FALSE
             /\ tasks' = ConversationIdEffect(Spawn(tasks, awaiting), id)
             /\ lastStep' = "handlePromptSubmit:started"
             /\ UNCHANGED <<prompt, documents, catalog, docLoading,
                            searchLoading, docError, searchError, now, file, docText, initializing>>
             /\ KeepConversationHistory

\* mutant: a failed getDocumentContent is thrown into the catch block
DocumentContentSettleThrows(i, ok, content) ==
  /\ At(i, "handlePromptSubmit", "documentContent")
  /\ IF ok
       THEN /\ tasks' = [tasks EXCEPT ![i].pc = "llm",
                                      ![i].req = RequestConversationId(tasks[i].c),
                                      ![i].ctx = Truthy(content)]
            /\ UNCHANGED <<llmError, llmLoading>>
       ELSE /\ tasks' = Finish(tasks, i)
            /\ llmError' = <<"Request error: ", "message">>
            /\ llmLoading' = FALSE
  /\ lastStep' = IF ok THEN "getDocumentContent:loaded" ELSE "getDocumentContent:failed"
  /\ UNCHANGED <<session, panels, documents, catalog, docLoading, searchLoading,
                 docError, searchError, toolsMenuOpen, now, file, docText, initializing, audit>>

\* getDocumentContent settles (null when the request failed); the request
\* body is built, with document_context only `if (documentContext)`, and
\* axios.post("/api/llm") is awaited
DocumentContentSettle(i, ok, content) ==
  /\ At(i, "handlePromptSubmit", "documentContent")
  /\ tasks' = [tasks EXCEPT ![i].pc = "llm",
                            ![i].req = RequestConversationId(tasks[i].c),
                            ![i].ctx = (ok /\ Truthy(content))]
  /\ lastStep' = IF ok THEN "getDocumentContent:loaded" ELSE "getDocumentContent:failed"
  /\ UNCHANGED <<session, panels, documents, catalog, loading, errors,
                 toolsMenuOpen, now, file, docText, initializing, audit>>

\* mutant: the response's messages are appended to the list held
AppendedContext(context) ==
  conversationHistory \o (IF context = Null THEN <<>> ELSE Val(context))

\* res.data.updated_context || []
UpdatedContext(context) == Val(OrElse(context, Some(<<>>)))

\* the /api/llm response arrives: the message list is set to
\* res.data.updated_context || [], the optional collections are set when
\* present, and either generateTitle (two messages) or, after
\* setPrompt(""), loadAllConversations is awaited
LlmSettleOk(i, context, results, steps, sources) ==
  LET updatedContext == UpdatedContext(context)
  IN  /\ At(i, "handlePromptSubmit", "llm")
      /\ SetConversationHistory(updatedContext, tasks[i].req)
      /\ searchResults' = IF results # Null THEN results ELSE searchResults
      /\ reasoningSteps' = IF steps # Null THEN Val(steps) ELSE reasoningSteps
      /\ sourcesUsed' = IF sources # Null THEN Val(sources) ELSE sourcesUsed
      /\ IF Len(updatedContext) = 2
           THEN /\ tasks' = [tasks EXCEPT ![i].pc = "autoTitle",
                                          ![i].tid = RequestConversationId(tasks[i].c)]
                /\ UNCHANGED prompt
           ELSE /\ tasks' = [tasks EXCEPT ![i].pc = "refresh"]
                /\ prompt' = EmptyText
      /\ lastStep' = "handlePromptSubmit:response"
      /\ UNCHANGED <<conversationId, documents, catalog, loading, errors,
                     toolsMenuOpen, now, file, docText, initializing>>

\* mutant: every failure is reported as a server error
LlmErrorTextOneKind(kind, detail) ==
  <<"Server error: ", Val(OrElse(detail, Some("statusText")))>>

\* mutant: the catch block has no final else
LlmErrorTextNoElse(kind, detail) ==
  CASE kind = "response" -> <<"Server error: ", Val(OrElse(detail, Some("statusText")))>>
    [] kind = "request"  -> <<"Network error: Unable to reach server">>
    [] OTHER             -> llmError

\* the text the catch block writes for each kind of axios error
LlmErrorText(kind, detail) ==
  CASE kind = "response" -> <<"Server error: ", Val(OrElse(detail, Some("statusText")))>>
    [] kind = "request"  -> <<"Network error: Unable to reach server">>
    [] OTHER             -> <<"Request error: ", "message">>

ErrorKinds == {"response", "request", "setup"}

\* mutant: setLlmLoading(false) only at the end of the try block
LlmSettleFailStillLoading(i, kind, detail) ==
  /\ At(i, "handlePromptSubmit", "llm")
  /\ llmError' = LlmErrorText(kind, detail)
  /\ tasks' = Finish(tasks, i)
  /\ lastStep' = "handlePromptSubmit:failed"
  /\ UNCHANGED <<session, panels, documents, catalog, loading, docError,
                 searchError, toolsMenuOpen, now, file, docText, initializing, audit>>

\* mutant: setPrompt("") in the finally block
LlmSettleFailClearsPrompt(i, kind, detail) ==
  /\ At(i, "handlePromptSubmit", "llm")
  /\ llmError' = LlmErrorText(kind, detail)
  /\ llmLoading' = FALSE
  /\ prompt' = EmptyText
  /\ tasks' = Finish(tasks, i)
  /\ lastStep' = "handlePromptSubmit:failed"
  /\ UNCHANGED <<conversationId, conversationHistory, hasStartedConversation,
                 panels, documents, catalog, docLoading, searchLoading,
                 docError, searchError, toolsMenuOpen, now, file, docText, initializing, audit>>

\* axios.post("/api/llm") rejects: catch sets llmError, finally clears
\* llmLoading
LlmSettleFail(i, kind, detail) ==
  /\ At(i, "handlePromptSubmit", "llm")
  /\ llmError' = LlmErrorText(kind, detail)
  /\ llmLoading' = FALSE
  /\ tasks' = Finish(tasks, i)
  /\ lastStep' = "handlePromptSubmit:failed"
  /\ UNCHANGED <<session, panels, documents, catalog, docLoading, searchLoading,
                 docError, searchError, toolsMenuOpen, now, file, docText, initializing, audit>>

\* mutant: a failed auto-title is thrown into handlePromptSubmit's catch
AutoTitleSettleThrows(i, ok) ==
  /\ At(i, "handlePromptSubmit", "autoTitle")
  /\ IF ok THEN /\ tasks' = [tasks EXCEPT ![i].pc = "titleRefresh"]
                /\ UNCHANGED <<llmError, llmLoading>>
           ELSE /\ tasks' = Finish(tasks, i)
                /\ llmError' = LlmErrorText("response", Null)
                /\ llmLoading' = FALSE
  /\ lastStep' = IF ok THEN "generateTitle:titled" ELSE "generateTitle:failed"
  /\ UNCHANGED <<session, panels, documents, catalog, docLoading, searchLoading,
                 docError, searchError, toolsMenuOpen, now, file, docText, initializing, audit>>

\* generateTitle: POST auto-title settles.  On success generateTitle awaits
\* loadAllConversations; on failure it logs and returns, and
\* handlePromptSubmit goes on to setPrompt("") and loadAllConversations
AutoTitleSettle(i, ok) ==
  /\ At(i, "handlePromptSubmit", "autoTitle")
  /\ IF ok THEN /\ tasks' = [tasks EXCEPT ![i].pc = "titleRefresh"]
                /\ UNCHANGED prompt
           ELSE /\ tasks' = [tasks EXCEPT ![i].pc = "refresh"]
                /\ prompt' = EmptyText
  /\ lastStep' = IF ok THEN "generateTitle:titled" ELSE "generateTitle:failed"
  /\ UNCHANGED <<conversationId, conversationHistory, hasStartedConversation,
                 panels, documents, catalog, loading, errors, toolsMenuOpen,
                 now, file, docText, initializing, audit>>

\* generateTitle's loadAllConversations settles; generateTitle returns and
\* handlePromptSubmit goes on to setPrompt("") and loadAllConversations
TitleRefreshSettle(i, ok, convs) ==
  /\ At(i, "handlePromptSubmit", "titleRefresh")
  /\ allConversations' = IF ok THEN convs ELSE <<>>
  /\ prompt' = EmptyText
  /\ tasks' = [tasks EXCEPT ![i].pc = "refresh"]
  /\ lastStep' = "generateTitle:refreshed"
  /\ UNCHANGED <<conversationId, conversationHistory, hasStartedConversation,
                 panels, documents, loading, errors, toolsMenuOpen,
                 now, file, docText, initializing, audit>>

\* the last loadAllConversations settles; finally clears llmLoading
RefreshSettle(i, ok, convs) ==
  /\ At(i, "handlePromptSubmit", "refresh")
  /\ allConversations' = IF ok THEN convs ELSE <<>>
  /\ llmLoading' = FALSE
  /\ tasks' = Finish(tasks, i)
  /\ lastStep' = IF ok THEN "handlePromptSubmit:done"
                       ELSE "handlePromptSubmit:doneRefreshFailed"
  /\ UNCHANGED <<session, panels, documents, docLoading,
                 searchLoading, errors, toolsMenuOpen, now, file, docText, initializing, audit>>

(* ------------------------ handleStandaloneSearch ----------------------- *)

\* max_results of the body posted to /api/search
MaxResults == 5

\* handleStandaloneSearch() up to await axios.post("/api/search")
HandleStandaloneSearch ==
  IF Trim(prompt) = EmptyText
    THEN /\ lastStep' = "handleStandaloneSearch:ignored"
         /\ UNCHANGED <<session, panels, documents, catalog, loading, errors,
                        toolsMenuOpen, now, file, docText, initializing, tasks, audit>>
    ELSE /\ FreeSlots(tasks) # {}
         /\ searchLoading' = TRUE
         /\ searchError' = EmptyText
         /\ searchResults' = Null
         /\ tasks' = Spawn(tasks, [Task("handleStandaloneSearch", "search")
                                     EXCEPT !.p = prompt,
                                            !.arg = Some(MaxResults)])
         /\ lastStep' = "handleStandaloneSearch:started"
         /\ UNCHANGED <<session, reasoningSteps, sourcesUsed, documents, catalog,
                        llmLoading, docLoading, llmError, docError,
                        toolsMenuOpen, now, file, docText, initializing, audit>>

\* mutant: the input is cleared as after a prompt submission
SearchSettleOkClearsPrompt(i, results) ==
  /\ At(i, "handleStandaloneSearch", "search")
  /\ searchResults' = results
  /\ searchLoading' = FALSE
  /\ prompt' = EmptyText
  /\ tasks' = Finish(tasks, i)
  /\ lastStep' = "handleStandaloneSearch:results"
  /\ UNCHANGED <<conversationId, conversationHistory, hasStartedConversation,
                 reasoningSteps, sourcesUsed, documents, catalog, llmLoading,
                 docLoading, errors, toolsMenuOpen, now, file, docText, initializing, audit>>

\* the /api/search response arrives: setSearchResults(res.data.results)
SearchSettleOk(i, results) ==
  /\ At(i, "handleStandaloneSearch", "search")
  /\ searchResults' = results
  /\ searchLoading' = FALSE
  /\ tasks' = Finish(tasks, i)
  /\ lastStep' = "handleStandaloneSearch:results"
  /\ UNCHANGED <<session, reasoningSteps, sourcesUsed, documents, catalog,
                 llmLoading, docLoading, errors, toolsMenuOpen, now, file, docText, initializing,
                 audit>>

SearchErrorText(kind, detail) ==
  IF kind = "response"
    THEN <<"Search error: ", Val(OrElse(detail, Some("statusText")))>>
    ELSE <<"Search failed: Unable to reach server">>

\* mutant: the finally block of the search is skipped on a failure
SearchSettleFailKeepsLoading(i, kind, detail) ==
  /\ At(i, "handleStandaloneSearch", "search")
  /\ searchError' = SearchErrorText(kind, detail)
  /\ tasks' = Finish(tasks, i)
  /\ lastStep' = "handleStandaloneSearch:failed"
  /\ UNCHANGED <<session, panels, documents, catalog, loading,
                 llmError, docError, toolsMenuOpen, now, file, docText, initializing, audit>>

\* axios.post("/api/search") rejects
SearchSettleFail(i, kind, detail) ==
  /\ At(i, "handleStandaloneSearch", "search")
  /\ searchError' = SearchErrorText(kind, detail)
  /\ searchLoading' = FALSE
  /\ tasks' = Finish(tasks, i)
  /\ lastStep' = "handleStandaloneSearch:failed"
  /\ UNCHANGED <<session, panels, documents, catalog, llmLoading, docLoading,
                 llmError, docError, toolsMenuOpen, now, file, docText, initializing, audit>>

(* ---------------------- triggers of submit and search ------------------ *)

\* handleKeyPress on the textarea: Ctrl+Enter
KeyCtrlEnter == TextareaEnabled /\ HandlePromptSubmit

\* handleKeyPress on the textarea: Shift+Enter
KeyShiftEnter == TextareaEnabled /\ HandleStandaloneSearch

\* onClick of the send button
ClickSend == SendEnabled /\ HandlePromptSubmit

\* onClick of the search button
ClickSearch == SearchButtonEnabled /\ HandleStandaloneSearch

(* ------------------------------ documents ------------------------------ *)

\* sidebar "Select Document" button of a listed document:
\* setSelectedDocument(doc); setIncludeDocument(true)
ClickSelectDocument(d) ==
  /\ d \in Range(availableDocuments)
  /\ selectedDocument' = Some(d)
  /\ includeDocument' = TRUE
  /\ lastStep' = "selectDocument"
  /\ UNCHANGED <<session, panels, availableDocuments, catalog, loading, errors,
                 toolsMenuOpen, now, file, docText, initializing, tasks, audit>>

\* the tools button of either layout: setToolsMenuOpen(!toolsMenuOpen)
ToggleToolsMenu ==
  /\ toolsMenuOpen' = ~toolsMenuOpen
  /\ lastStep' = "toolsMenu"
  /\ UNCHANGED <<session, panels, documents, catalog, loading, errors, now, file, docText, initializing,
                 tasks, audit>>

\* The panels the render shows.  ChatInterface is rendered only once
\* hasStartedConversation holds; it shows the reasoning panel when
\* reasoningSteps && reasoningSteps.length > 0 and the sources panel when
\* sourcesUsed && sourcesUsed.length > 0.  It receives searchResults and
\* renders nothing from it, and neither does the empty-state layout.
PanelShown(panel) ==
  CASE panel = "reasoning" -> hasStartedConversation /\ reasoningSteps # <<>>
    [] panel = "sources"   -> hasStartedConversation /\ sourcesUsed # <<>>
    [] panel = "search"    -> FALSE

\* the tools menu of ChatInterface is rendered in the chat layout only.  Its
\* controls are modelled on the setters ChatInterface names in its parameter
\* list (setIncludeDocument, setSelectedDocument, availableDocuments), bound
\* to the state slots of App
ToolsMenuShown == hasStartedConversation /\ toolsMenuOpen

\* "Enable Document Search" checkbox: setIncludeDocument(e.target.checked)
CheckIncludeDocument ==
  /\ ToolsMenuShown
  /\ includeDocument' = ~includeDocument
  /\ lastStep' = "includeDocumentCheckbox"
  /\ UNCHANGED <<session, panels, availableDocuments, selectedDocument, catalog,
                 loading, errors, toolsMenuOpen, now, file, docText, initializing, tasks, audit>>

\* availableDocuments.find((d) => d.document_id === value): undefined for
\* the "-- Select Document --" option, whose value is ""
FindDocument(value) ==
  IF value # Null /\ Val(value) \in Range(availableDocuments) THEN value ELSE Null

\* the document <select>: setSelectedDocument(doc), nothing else
ChooseDocument(value) ==
  /\ ToolsMenuShown
  /\ Len(availableDocuments) > 0
  /\ value # selectedDocument
  /\ selectedDocument' = FindDocument(value)
  /\ lastStep' = "documentDropdown"
  /\ UNCHANGED <<session, panels, availableDocuments, includeDocument, catalog,
                 loading, errors, toolsMenuOpen, now, file, docText, initializing, tasks, audit>>

\* handleDeleteDocument(docId) up to await axios.delete
HandleDeleteDocument(d) ==
  /\ FreeSlots(tasks) # {}
  /\ tasks' = Spawn(tasks, [Task("handleDeleteDocument", "delete") EXCEPT
                              !.arg = Some(d), !.sel = selectedDocument])
  /\ lastStep' = "handleDeleteDocument:started"
  /\ UNCHANGED <<session, panels, documents, catalog, loading, errors,
                 toolsMenuOpen, now, file, docText, initializing, audit>>

\* sidebar "Delete Document" button of a listed document
ClickDeleteDocument(d) ==
  d \in Range(availableDocuments) /\ HandleDeleteDocument(d)

\* delete button of the document preview above the chat input
ClickDeleteSelected ==
  /\ hasStartedConversation /\ selectedDocument # Null /\ includeDocument
  /\ HandleDeleteDocument(Val(selectedDocument))

\* DELETE /api/documents/:id settles: on success loadAvailableDocuments is
\* awaited, on failure the error is logged and nothing else happens
DeleteSettle(i, ok) ==
  /\ At(i, "handleDeleteDocument", "delete")
  /\ tasks' = IF ok THEN [tasks EXCEPT ![i].pc = "reload"] ELSE Finish(tasks, i)
  /\ lastStep' = IF ok THEN "handleDeleteDocument:deleted"
                       ELSE "handleDeleteDocument:failed"
  /\ UNCHANGED <<session, panels, documents, catalog, loading, errors,
                 toolsMenuOpen, now, file, docText, initializing, audit>>

\* mutant: only the selection is cleared
DeleteReloadSettleKeepsInclude(i, ok, docs) ==
  /\ At(i, "handleDeleteDocument", "reload")
  /\ availableDocuments' = IF ok THEN docs ELSE <<>>
  /\ IF tasks[i].sel = tasks[i].arg
       THEN selectedDocument' = Null
       ELSE UNCHANGED selectedDocument
  /\ tasks' = Finish(tasks, i)
  /\ lastStep' = IF tasks[i].sel = tasks[i].arg THEN "handleDeleteDocument:doneCleared"
                                            ELSE "handleDeleteDocument:done"
  /\ UNCHANGED <<session, panels, includeDocument, catalog, loading, errors,
                 toolsMenuOpen, now, file, docText, initializing, audit>>

\* loadAvailableDocuments settles; then, on the selectedDocument the closure
\* captured: if (selectedDocument?.document_id === docId) both slots are
\* cleared
DeleteReloadSettle(i, ok, docs) ==
  /\ At(i, "handleDeleteDocument", "reload")
  /\ availableDocuments' = IF ok THEN docs ELSE <<>>
  /\ IF tasks[i].sel = tasks[i].arg
       THEN selectedDocument' = Null /\ includeDocument' = FALSE
       ELSE UNCHANGED <<selectedDocument, includeDocument>>
  /\ tasks' = Finish(tasks, i)
  /\ lastStep' = IF tasks[i].sel = tasks[i].arg THEN "handleDeleteDocument:doneCleared"
                                            ELSE "handleDeleteDocument:done"
  /\ UNCHANGED <<session, panels, catalog, loading, errors, toolsMenuOpen, now, file, docText, initializing,
                 audit>>

Documents(B) ==
  \/ \E d \in DocumentIds : ClickSelectDocument(d)
  \/ ToggleToolsMenu
  \/ CheckIncludeDocument
  \/ \E value \in {Null} \cup {Some(d) : d \in DocumentIds} : ChooseDocument(value)
  \/ \E d \in DocumentIds : ClickDeleteDocument(d)
  \/ ClickDeleteSelected
  \/ \E i \in Slots, ok \in BOOLEAN : DeleteSettle(i, ok)
  \/ \E i \in Slots, ok \in BOOLEAN, docs \in B.documents : DeleteReloadSettle(i, ok, docs)

(* ------------------------------- upload -------------------------------- *)

\* the files the user can pick or drop
Files == {"f1", "f2"}

\* handleFilePicker() from the attach button of either layout
\* (disabled={llmLoading || docLoading}) or from the sidebar upload area,
\* which is never disabled, with the file chosen in the dialog:
\* setFile(selectedFile); setDocError(""); setTimeout(handleFileUpload, 100).
\* The handleFileUpload the timer calls is the one of the render in which the
\* control was clicked: its `file` is the slot's value at that moment.
HandleFilePicker(control, picked) ==
  /\ control = "attach" => ~(llmLoading \/ docLoading)
  /\ FreeSlots(tasks) # {}
  /\ file' = Some(picked)
  /\ docError' = EmptyText
  /\ tasks' = Spawn(tasks, [Task("handleFilePicker", "timeout") EXCEPT !.arg = file])
  /\ lastStep' = "handleFilePicker:picked"
  /\ UNCHANGED <<session, panels, documents, docText, catalog, loading, llmError,
                 searchError, toolsMenuOpen, now, initializing, audit>>

\* handleDrop(e) on the input container of either layout, with a dropped
\* file: the same updates and the same timer
HandleDrop(dropped) ==
  /\ FreeSlots(tasks) # {}
  /\ file' = Some(dropped)
  /\ docError' = EmptyText
  /\ tasks' = Spawn(tasks, [Task("handleDrop", "timeout") EXCEPT !.arg = file])
  /\ lastStep' = "handleDrop:dropped"
  /\ UNCHANGED <<session, panels, documents, docText, catalog, loading, llmError,
                 searchError, toolsMenuOpen, now, initializing, audit>>

\* the timer fires: handleFileUpload() up to await axios.post("/api/documents"),
\* on the file its closure holds
HandleFileUpload(i) ==
  /\ At(i, "handleFilePicker", "timeout") \/ At(i, "handleDrop", "timeout")
  /\ IF tasks[i].arg = Null
       THEN /\ docError' = <<"Please select a file first">>
            /\ tasks' = Finish(tasks, i)
            /\ lastStep' = "handleFileUpload:noFile"
            /\ UNCHANGED <<docLoading, docText>>
       ELSE /\ docLoading' = TRUE
            /\ docError' = EmptyText
            /\ docText' = EmptyText
            /\ tasks' = [tasks EXCEPT ![i].kind = "handleFileUpload", ![i].pc = "upload"]
            /\ lastStep' = "handleFileUpload:started"
  /\ UNCHANGED <<session, panels, documents, file, catalog, llmLoading, searchLoading,
                 llmError, searchError, toolsMenuOpen, now, initializing, audit>>

\* the POST settles: setDocText(res.data.text) and loadAvailableDocuments is
\* awaited (the task keeps res.data.text in p); on failure the catch block writes docError, with the three texts
\* handlePromptSubmit uses, and finally clears docLoading
UploadSettle(i, kind, detail, text) ==
  /\ At(i, "handleFileUpload", "upload")
  /\ IF kind = "ok"
       THEN /\ docText' = text
            /\ tasks' = [tasks EXCEPT ![i].pc = "reload", ![i].p = text]
            /\ UNCHANGED <<docError, docLoading>>
       ELSE /\ docError' = LlmErrorText(kind, detail)
            /\ docLoading' = FALSE
            /\ tasks' = Finish(tasks, i)
            /\ UNCHANGED docText
  /\ lastStep' = IF kind = "ok" THEN "handleFileUpload:uploaded" ELSE "handleFileUpload:failed"
  /\ UNCHANGED <<session, panels, documents, file, catalog, llmLoading, searchLoading,
                 llmError, searchError, toolsMenuOpen, now, initializing, audit>>

\* loadAvailableDocuments settles; the handler's own GET /api/documents is
\* awaited next
UploadReloadSettle(i, ok, docs) ==
  /\ At(i, "handleFileUpload", "reload")
  /\ availableDocuments' = IF ok THEN docs ELSE <<>>
  /\ tasks' = [tasks EXCEPT ![i].pc = "latest"]
  /\ lastStep' = "handleFileUpload:reloaded"
  /\ UNCHANGED <<session, panels, selectedDocument, includeDocument, file, docText,
                 catalog, loading, errors, toolsMenuOpen, now, initializing, audit>>

\* the handler's GET settles: the last document of its list, if any, is
\* selected and included; a failure goes to the catch block; finally clears
\* docLoading
UploadLatestSettle(i, kind, detail, docs) ==
  /\ At(i, "handleFileUpload", "latest")
  /\ IF kind = "ok"
       THEN /\ IF docs # <<>>
                 THEN selectedDocument' = Some(docs[Len(docs)]) /\ includeDocument' = TRUE
                 ELSE UNCHANGED <<selectedDocument, includeDocument>>
            /\ UNCHANGED docError
       ELSE /\ docError' = LlmErrorText(kind, detail)
            /\ UNCHANGED <<selectedDocument, includeDocument>>
  /\ docLoading' = FALSE
  /\ tasks' = Finish(tasks, i)
  /\ lastStep' = IF kind = "ok" THEN "handleFileUpload:done" ELSE "handleFileUpload:failedLatest"
  /\ UNCHANGED <<session, panels, availableDocuments, file, docText, catalog, llmLoading,
                 searchLoading, llmError, searchError, toolsMenuOpen, now, initializing,
                 audit>>

Upload(B) ==
  \/ \E control \in {"attach", "sidebar"}, picked \in Files : HandleFilePicker(control, picked)
  \/ \E dropped \in Files : HandleDrop(dropped)
  \/ \E i \in Slots : HandleFileUpload(i)
  \/ \E i \in Slots, kind \in {"ok"} \cup ErrorKinds, detail \in B.details :
       UploadSettle(i, kind, detail, <<"text">>)
  \/ \E i \in Slots, ok \in BOOLEAN, docs \in B.documents : UploadReloadSettle(i, ok, docs)
  \/ \E i \in Slots, kind \in {"ok"} \cup ErrorKinds, detail \in B.details, docs \in B.documents :
       UploadLatestSettle(i, kind, detail, docs)

(* ----------------------- handleSwitchConversation ---------------------- *)

\* handleSwitchConversation(convId), from a sidebar conversation item, up to
\* await axios.get(`/api/conversations/${convId}`)
HandleSwitchConversation(target) ==
  /\ target \in Range(allConversations)
  /\ FreeSlots(tasks) # {}
  /\ EffectFits(Spawn(tasks, Task("handleSwitchConversation", "fetch")), target)
  /\ conversationId' = target
  /\ reasoningSteps' = <<>>
  /\ sourcesUsed' = <<>>
  /\ prompt' = EmptyText
  /\ llmError' = EmptyText
  /\ searchResults' = Null
  /\ tasks' = ConversationIdEffect(
                Spawn(tasks, [Task("handleSwitchConversation", "fetch") EXCEPT
                                !.arg = target, !.c = conversationId]),
                target)
  /\ lastStep' = "handleSwitchConversation:started"
  /\ audit' = [audit EXCEPT !.switch = "pending"]
  /\ UNCHANGED <<conversationHistory, hasStartedConversation, documents, catalog,
                 loading, docError, searchError, toolsMenuOpen, now, file, docText, initializing>>

\* mutant: the catch block leaves the message list as it is
SwitchedHistoryKept(ok, body) ==
  IF ok THEN Val(OrElse(body, Some(<<>>))) ELSE conversationHistory

\* what handleSwitchConversation sets the message list to:
\* res.data.messages || [], or [] in its catch block
SwitchedHistory(ok, body) ==
  IF ok THEN Val(OrElse(body, Some(<<>>))) ELSE <<>>

\* the handler's own GET settles
SwitchSettle(i, ok, body) ==
  /\ At(i, "handleSwitchConversation", "fetch")
  /\ conversationHistory' = SwitchedHistory(ok, body)
  /\ hasStartedConversation' = (Len(conversationHistory') > 0)
  /\ audit' = [audit EXCEPT !.from = IF ok THEN tasks[i].arg ELSE Null,
                            !.switch = IF ok THEN "loaded" ELSE "failed"]
  /\ tasks' = Finish(tasks, i)
  /\ lastStep' = IF ok THEN "handleSwitchConversation:loaded"
                       ELSE "handleSwitchConversation:failed"
  /\ UNCHANGED <<prompt, conversationId, panels, documents, catalog, loading,
                 errors, toolsMenuOpen, now, file, docText, initializing>>

Switch(B) ==
  \/ \E target \in ConversationIds : HandleSwitchConversation(target)
  \/ \E i \in Slots, ok \in BOOLEAN, body \in B.contexts : SwitchSettle(i, ok, body)

(* ------------------- clear current, clear all, new --------------------- *)

\* setPrompt(""); setLlmError(""); setSearchResults(null);
\* setReasoningSteps([]); setSourcesUsed([]), as clear current, clear all and
\* new conversation all do
ResetTransient ==
  /\ prompt' = EmptyText
  /\ llmError' = EmptyText
  /\ searchResults' = Null
  /\ reasoningSteps' = <<>>
  /\ sourcesUsed' = <<>>

\* handleClearConversation(), from the "Clear Current Chat" button, up to
\* await axios.delete(`/api/conversations/${conversationId}`)
HandleClearConversation ==
  IF conversationId = Null
    THEN /\ lastStep' = "handleClearConversation:ignored"
         /\ UNCHANGED <<session, panels, documents, catalog, loading, errors,
                        toolsMenuOpen, now, file, docText, initializing, tasks, audit>>
    ELSE /\ FreeSlots(tasks) # {}
         /\ tasks' = Spawn(tasks, [Task("handleClearConversation", "delete")
                                     EXCEPT !.c = conversationId])
         /\ lastStep' = "handleClearConversation:started"
         /\ UNCHANGED <<session, panels, documents, catalog, loading, errors,
                        toolsMenuOpen, now, file, docText, initializing, audit>>

\* the DELETE settles: on success the local reset, with
\* setHasStartedConversation(false), and loadAllConversations is awaited; on
\* failure the catch block logs and the handler returns
ClearSettle(i, ok) ==
  /\ At(i, "handleClearConversation", "delete")
  /\ IF ok
       THEN /\ SetConversationHistory(<<>>, Null)
            /\ ResetTransient
            /\ tasks' = [tasks EXCEPT ![i].pc = "refresh"]
       ELSE /\ KeepConversationHistory
            /\ UNCHANGED <<prompt, llmError, panels>>
            /\ tasks' = Finish(tasks, i)
  /\ lastStep' = IF ok THEN "handleClearConversation:cleared"
                       ELSE "handleClearConversation:failed"
  /\ UNCHANGED <<conversationId, documents, catalog, loading, docError,
                 searchError, toolsMenuOpen, now, file, docText, initializing>>

\* loadAllConversations of handleClearConversation settles
ClearRefreshSettle(i, ok, convs) ==
  /\ At(i, "handleClearConversation", "refresh")
  /\ allConversations' = IF ok THEN convs ELSE <<>>
  /\ tasks' = Finish(tasks, i)
  /\ lastStep' = "handleClearConversation:done"
  /\ UNCHANGED <<session, panels, documents, loading, errors, toolsMenuOpen,
                 now, file, docText, initializing, audit>>

\* mutant: the request is issued whatever window.confirm returned
HandleClearAllHistoryUnasked(confirmed) ==
  /\ FreeSlots(tasks) # {}
  /\ tasks' = Spawn(tasks, Task("handleClearAllHistory", "deleteAll"))
  /\ lastStep' = "handleClearAllHistory:started"
  /\ UNCHANGED <<session, panels, documents, catalog, loading, errors,
                 toolsMenuOpen, now, file, docText, initializing, audit>>

\* handleClearAllHistory(), from the "Clear All History" button:
\* window.confirm(...), and when confirmed await
\* axios.delete("/api/conversations")
HandleClearAllHistory(confirmed) ==
  IF ~confirmed
    THEN /\ lastStep' = "handleClearAllHistory:declined"
         /\ UNCHANGED <<session, panels, documents, catalog, loading, errors,
                        toolsMenuOpen, now, file, docText, initializing, tasks, audit>>
    ELSE /\ FreeSlots(tasks) # {}
         /\ tasks' = Spawn(tasks, Task("handleClearAllHistory", "deleteAll"))
         /\ lastStep' = "handleClearAllHistory:started"
         /\ UNCHANGED <<session, panels, documents, catalog, loading, errors,
                        toolsMenuOpen, now, file, docText, initializing, audit>>

\* the DELETE of all conversations settles: on success the catalog and the
\* session are reset and a new conversation id is set; on failure the catch
\* block logs
ClearAllSettle(i, ok) ==
  /\ At(i, "handleClearAllHistory", "deleteAll")
  /\ IF ok
       THEN /\ EffectFits(Finish(tasks, i), NewConversationId)
            /\ allConversations' = <<>>
            /\ SetConversationHistory(<<>>, Null)
            /\ ResetTransient
            /\ conversationId' = NewConversationId
            /\ tasks' = ConversationIdEffect(Finish(tasks, i), NewConversationId)
       ELSE /\ KeepConversationHistory
            /\ UNCHANGED <<prompt, conversationId, llmError, panels, catalog>>
            /\ tasks' = Finish(tasks, i)
  /\ lastStep' = IF ok THEN "handleClearAllHistory:cleared"
                       ELSE "handleClearAllHistory:failed"
  /\ UNCHANGED <<documents, loading, docError, searchError, toolsMenuOpen, now, file, docText,
                 initializing>>

\* the second half of handleNewConversation: a new conversation id, an empty
\* message list and the transient state reset
StartNewConversation(ts) ==
  /\ EffectFits(ts, NewConversationId)
  /\ conversationId' = NewConversationId
  /\ SetConversationHistory(<<>>, Null)
  /\ ResetTransient
  /\ tasks' = ConversationIdEffect(ts, NewConversationId)

\* handleNewConversation(), from the "New Chat" button: with messages and a
\* conversation id, await loadAllConversations() first
HandleNewConversation ==
  IF Len(conversationHistory) > 0 /\ conversationId # Null
    THEN /\ FreeSlots(tasks) # {}
         /\ tasks' = Spawn(tasks, Task("handleNewConversation", "refresh"))
         /\ lastStep' = "handleNewConversation:refreshing"
         /\ UNCHANGED <<session, panels, documents, catalog, loading, errors,
                        toolsMenuOpen, now, file, docText, initializing, audit>>
    ELSE /\ StartNewConversation(tasks)
         /\ lastStep' = "handleNewConversation:done"
         /\ UNCHANGED <<documents, catalog, loading, docError, searchError,
                        toolsMenuOpen, now, file, docText, initializing>>

\* mutant: a failed catalog refresh ends handleNewConversation
NewRefreshSettleGivesUp(i, ok, convs) ==
  /\ At(i, "handleNewConversation", "refresh")
  /\ allConversations' = IF ok THEN convs ELSE <<>>
  /\ IF ok THEN StartNewConversation(Finish(tasks, i))
           ELSE /\ tasks' = Finish(tasks, i)
                /\ KeepConversationHistory
                /\ UNCHANGED <<prompt, conversationId, llmError, panels>>
  /\ lastStep' = IF ok THEN "handleNewConversation:doneRefreshed"
                       ELSE "handleNewConversation:doneRefreshFailed"
  /\ UNCHANGED <<documents, loading, docError, searchError, toolsMenuOpen, now, file, docText,
                 initializing>>

\* loadAllConversations of handleNewConversation settles, and the handler
\* goes on to start the new conversation
NewRefreshSettle(i, ok, convs) ==
  /\ At(i, "handleNewConversation", "refresh")
  /\ allConversations' = IF ok THEN convs ELSE <<>>
  /\ StartNewConversation(Finish(tasks, i))
  /\ lastStep' = IF ok THEN "handleNewConversation:doneRefreshed"
                       ELSE "handleNewConversation:doneRefreshFailed"
  /\ UNCHANGED <<documents, loading, docError, searchError, toolsMenuOpen, now, file, docText,
                 initializing>>

Manage(B) ==
  \/ HandleClearConversation
  \/ \E i \in Slots, ok \in BOOLEAN : ClearSettle(i, ok)
  \/ \E i \in Slots, ok \in BOOLEAN, convs \in B.catalogs : ClearRefreshSettle(i, ok, convs)
  \/ \E confirmed \in BOOLEAN : HandleClearAllHistory(confirmed)
  \/ \E i \in Slots, ok \in BOOLEAN : ClearAllSettle(i, ok)
  \/ HandleNewConversation
  \/ \E i \in Slots, ok \in BOOLEAN, convs \in B.catalogs : NewRefreshSettle(i, ok, convs)

(* --------------------------- export, import ---------------------------- *)

\* click on Export: nothing without a conversation id, else the GET of the
\* snapshot is awaited
HandleExportConversation ==
  IF conversationId = Null
    THEN /\ lastStep' = "handleExportConversation:ignored"
         /\ UNCHANGED <<session, panels, documents, catalog, loading, errors,
                        toolsMenuOpen, now, file, docText, initializing, tasks, audit>>
    ELSE /\ FreeSlots(tasks) # {}
         /\ tasks' = Spawn(tasks, [Task("handleExportConversation", "export")
                                     EXCEPT !.c = conversationId])
         /\ lastStep' = "handleExportConversation:started"
         /\ UNCHANGED <<session, panels, documents, catalog, loading, errors,
                        toolsMenuOpen, now, file, docText, initializing, audit>>

\* the GET settles: the body is serialized with JSON.stringify(data, null, 2)
\* into the file offered for download; a failure is logged
ExportSettle(i, ok, data) ==
  /\ At(i, "handleExportConversation", "export")
  /\ audit' = IF ok THEN [audit EXCEPT !.exported = Some(data),
                                       !.file = Some(Stringify(data, 0))]
                    ELSE audit
  /\ tasks' = Finish(tasks, i)
  /\ lastStep' = IF ok THEN "handleExportConversation:downloaded"
                       ELSE "handleExportConversation:failed"
  /\ UNCHANGED <<session, panels, documents, catalog, loading, errors,
                 toolsMenuOpen, now, file, docText, initializing>>

\* the files the user can pick: none, the file downloaded last, or one of
\* their own, a truncated one and a snapshot written without line breaks
ImportFiles ==
  {Null, Some(<<"{", "\"", "t", "\"", ":">>),
         Some(<<"{", "\"", "t", "\"", ":", "n", "u", "l", "l", "}">>)}
    \cup (IF audit.file = Null THEN {} ELSE {audit.file})

\* a file is chosen in the import input: nothing without a file, else
\* file.text() is awaited
HandleImportConversation(picked) ==
  IF picked = Null
    THEN /\ lastStep' = "handleImportConversation:ignored"
         /\ UNCHANGED <<session, panels, documents, catalog, loading, errors,
                        toolsMenuOpen, now, file, docText, initializing, tasks, audit>>
    ELSE /\ FreeSlots(tasks) # {}
         /\ tasks' = Spawn(tasks, [Task("handleImportConversation", "read")
                                     EXCEPT !.p = Val(picked)])
         /\ lastStep' = "handleImportConversation:started"
         /\ UNCHANGED <<session, panels, documents, catalog, loading, errors,
                        toolsMenuOpen, now, file, docText, initializing, audit>>

\* file.text() settles: the text is parsed and the value posted to the import
\* endpoint; when the read or JSON.parse throws, the catch block alerts
ImportReadSettle(i, ok) ==
  /\ At(i, "handleImportConversation", "read")
  /\ LET conversationData == IF ok THEN JSONParse(tasks[i].p) ELSE Null
     IN  /\ tasks' = IF conversationData = Null
                       THEN Finish(tasks, i)
                       ELSE [tasks EXCEPT ![i].pc = "import", ![i].arg = conversationData]
         /\ lastStep' = IF ~ok THEN "handleImportConversation:alertUnreadable"
                        ELSE IF conversationData = Null
                          THEN "handleImportConversation:alertUnparsed"
                          ELSE "handleImportConversation:posted"
  /\ UNCHANGED <<session, panels, documents, catalog, loading, errors,
                 toolsMenuOpen, now, file, docText, initializing, audit>>

\* mutant: loadAllConversations is called after a failed import too
ImportSettleRefreshesAnyway(i, ok) ==
  /\ At(i, "handleImportConversation", "import")
  /\ tasks' = [tasks EXCEPT ![i].pc = "refresh"]
  /\ lastStep' = IF ok THEN "handleImportConversation:imported"
                       ELSE "handleImportConversation:alertRejected"
  /\ UNCHANGED <<session, panels, documents, catalog, loading, errors,
                 toolsMenuOpen, now, file, docText, initializing, audit>>

\* the POST settles: on success loadAllConversations is awaited, on failure
\* the catch block alerts
ImportSettle(i, ok) ==
  /\ At(i, "handleImportConversation", "import")
  /\ tasks' = IF ok THEN [tasks EXCEPT ![i].pc = "refresh"] ELSE Finish(tasks, i)
  /\ lastStep' = IF ok THEN "handleImportConversation:imported"
                       ELSE "handleImportConversation:alertRejected"
  /\ UNCHANGED <<session, panels, documents, catalog, loading, errors,
                 toolsMenuOpen, now, file, docText, initializing, audit>>

\* loadAllConversations of handleImportConversation settles, then the
\* success alert
ImportRefreshSettle(i, ok, convs) ==
  /\ At(i, "handleImportConversation", "refresh")
  /\ allConversations' = IF ok THEN convs ELSE <<>>
  /\ tasks' = Finish(tasks, i)
  /\ lastStep' = "handleImportConversation:alertImported"
  /\ UNCHANGED <<session, panels, documents, loading, errors, toolsMenuOpen,
                 now, file, docText, initializing, audit>>

Transfer(B) ==
  \/ HandleExportConversation
  \/ \E i \in Slots, ok \in BOOLEAN, data \in B.snapshots : ExportSettle(i, ok, data)
  \/ \E picked \in ImportFiles : HandleImportConversation(picked)
  \/ \E i \in Slots, ok \in BOOLEAN : ImportReadSettle(i, ok)
  \/ \E i \in Slots, ok \in BOOLEAN : ImportSettle(i, ok)
  \/ \E i \in Slots, ok \in BOOLEAN, convs \in B.catalogs : ImportRefreshSettle(i, ok, convs)

\* Prompt submission with every message list, responses without the
\* optional collections; one document to select.
BackendSubmit ==
  [Backend EXCEPT !.documents = {<<"d1">>}, !.catalogs = {<<>>},
                  !.results = {Null}, !.steps = {Null}, !.sources = {Null}]

Submit(B) ==
  \/ \E text \in Prompts : TypePrompt(text)
  \/ KeyCtrlEnter
  \/ ClickSend
  \/ \E i \in Slots, ok \in BOOLEAN, content \in B.contents :
       DocumentContentSettle(i, ok, content)
  \/ \E i \in Slots, context \in B.contexts, results \in B.results,
        steps \in B.steps, sources \in B.sources :
       LlmSettleOk(i, context, results, steps, sources)
  \/ \E i \in Slots, kind \in ErrorKinds, detail \in B.details : LlmSettleFail(i, kind, detail)
  \/ \E i \in Slots, ok \in BOOLEAN : AutoTitleSettle(i, ok)
  \/ \E i \in Slots, ok \in BOOLEAN, convs \in B.catalogs : TitleRefreshSettle(i, ok, convs)
  \/ \E i \in Slots, ok \in BOOLEAN, convs \in B.catalogs : RefreshSettle(i, ok, convs)

Search(B) ==
  \/ KeyShiftEnter
  \/ ClickSearch
  \/ \E i \in Slots, results \in B.results : SearchSettleOk(i, results)
  \/ \E i \in Slots, kind \in {"response", "request"}, detail \in B.details :
       SearchSettleFail(i, kind, detail)

Next ==
  \/ Tick
  \/ Bootstrap(Backend)
  \/ Submit(Backend)
  \/ Search(Backend)
  \/ Documents(Backend)
  \/ Switch(Backend)
  \/ Manage(Backend)
  \/ Transfer(Backend)
  \/ Upload(Backend)

Spec == Init /\ [][Next]_vars

NextSubmit ==
  \/ Bootstrap(BackendSubmit)
  \/ Submit(BackendSubmit)
  \/ \E d \in DocumentIds : ClickSelectDocument(d)

SpecSubmit == Init /\ [][NextSubmit]_vars

\* Prompt submission together with standalone search, with every optional
\* collection and two message lists.
BackendChat ==
  [Backend EXCEPT !.documents = {<<"d1">>}, !.catalogs = {<<>>}, !.details = {Null},
                  !.contexts = {Some(<<"user">>), Some(<<"user", "assistant">>)}]

NextChat ==
  \/ Bootstrap(BackendChat)
  \/ Submit(BackendChat)
  \/ Search(BackendChat)
  \/ \E d \in DocumentIds : ClickSelectDocument(d)

SpecChat == Init /\ [][NextChat]_vars

\* the document controls, reached in the chat layout by a switch
BackendDocs ==
  [Backend EXCEPT !.catalogs = {<<StoredConversation>>},
                  !.documents = {<<"d1", "d2">>},
                  !.contexts = {Some(<<"user", "assistant">>)}]

\* the user opens a stored conversation while nothing else is awaited
NextDocs ==
  \/ Bootstrap(BackendDocs)
  \/ Documents(BackendDocs)
  \/ FreeSlots(tasks) = Slots /\ Switch(BackendDocs)
  \/ \E i \in Slots, ok \in BOOLEAN, body \in BackendDocs.contexts : SwitchSettle(i, ok, body)

SpecDocs == Init /\ [][NextDocs]_vars

\* Selecting and deleting documents in the empty-state layout; the backend
\* lists both documents, or the second alone.
BackendDelete ==
  [Backend EXCEPT !.catalogs = {<<>>}, !.contexts = {Null},
                  !.documents = {<<"d1", "d2">>, <<"d2">>}]

NextDelete ==
  \/ Bootstrap(BackendDelete)
  \/ \E d \in DocumentIds : ClickSelectDocument(d)
  \/ \E d \in DocumentIds : ClickDeleteDocument(d)
  \/ \E i \in Slots, ok \in BOOLEAN : DeleteSettle(i, ok)
  \/ \E i \in Slots, ok \in BOOLEAN, docs \in BackendDelete.documents :
       DeleteReloadSettle(i, ok, docs)

SpecDelete == Init /\ [][NextDelete]_vars

\* Switching between two stored conversations, each switch made after
\* initializeApp returned and while no request is awaited.
BackendSwitch ==
  [Backend EXCEPT !.documents = {<<>>},
                  !.catalogs = {<<StoredConversation, OlderConversation>>}]

NextSwitch ==
  \/ Bootstrap(BackendSwitch)
  \/ initializing = "done" /\ FreeSlots(tasks) = Slots /\ Switch(BackendSwitch)
  \/ \E i \in Slots, ok \in BOOLEAN, body \in BackendSwitch.contexts : SwitchSettle(i, ok, body)

SpecSwitch == Init /\ [][NextSwitch]_vars

\* initializeApp alone, with non-empty catalogs on the backend; every request
\* it awaits settles
BackendBoot ==
  [Backend EXCEPT !.documents = {<<"d1">>, <<"d1", "d2">>},
                  !.catalogs = {<<StoredConversation>>,
                                <<StoredConversation, OlderConversation>>}]

NextBoot == Tick \/ Bootstrap(BackendBoot)

SpecBoot == Init /\ [][NextBoot]_vars /\ WF_vars(Bootstrap(BackendBoot))

\* Clear current, clear all and new conversation, on a session whose
\* messages and panels come from prompt submissions.
BackendManage ==
  [Backend EXCEPT !.documents = {<<>>}, !.catalogs = {<<StoredConversation>>},
                  !.contexts = {Some(<<"user">>)}, !.details = {Null},
                  !.results = {Some(<<"result">>)}, !.steps = {Some(<<"step">>)},
                  !.sources = {Some(<<"source">>)}]

\* initializeApp has returned
Ready == initializing = "done"

\* the user acts after initializeApp has returned; submissions are made
\* without a selected document and answered by one message or by an error
SubmitSettles(B) ==
  \/ \E i \in Slots, context \in B.contexts, results \in B.results,
        steps \in B.steps, sources \in B.sources :
       LlmSettleOk(i, context, results, steps, sources)
  \/ \E i \in Slots, kind \in ErrorKinds, detail \in B.details :
       LlmSettleFail(i, kind, detail)
  \/ \E i \in Slots, ok \in BOOLEAN, convs \in B.catalogs : RefreshSettle(i, ok, convs)

SubmitReady(B) ==
  \/ Ready /\ TypePrompt(<<" ", "a">>)
  \/ Ready /\ ClickSend
  \/ SubmitSettles(B)

\* clear current
NextClear ==
  \/ Bootstrap(BackendManage)
  \/ SubmitReady(BackendManage)
  \/ Ready /\ HandleClearConversation
  \/ \E i \in Slots, ok \in BOOLEAN : ClearSettle(i, ok)
  \/ \E i \in Slots, ok \in BOOLEAN, convs \in BackendManage.catalogs :
       ClearRefreshSettle(i, ok, convs)

SpecClear == Init /\ [][NextClear]_vars

\* clear all and new conversation, as time passes
NextManage ==
  \/ Tick
  \/ Bootstrap(BackendManage)
  \/ SubmitReady(BackendManage)
  \/ Ready /\ \E confirmed \in BOOLEAN : HandleClearAllHistory(confirmed)
  \/ \E i \in Slots, ok \in BOOLEAN : ClearAllSettle(i, ok)
  \/ Ready /\ HandleNewConversation
  \/ \E i \in Slots, ok \in BOOLEAN, convs \in BackendManage.catalogs :
       NewRefreshSettle(i, ok, convs)

SpecManage == Init /\ [][NextManage]_vars

\* new conversation, at any moment from the mount on
NextNew ==
  \/ Tick
  \/ Bootstrap(BackendManage)
  \/ TypePrompt(<<" ", "a">>)
  \/ ClickSend
  \/ SubmitSettles(BackendManage)
  \/ HandleNewConversation
  \/ \E i \in Slots, ok \in BOOLEAN, convs \in BackendManage.catalogs :
       NewRefreshSettle(i, ok, convs)

SpecNew == Init /\ [][NextNew]_vars

\* Export and import once the application is initialized, with a catalog of
\* one entry to reload.
BackendTransfer ==
  [Backend EXCEPT !.documents = {<<>>}, !.catalogs = {<<StoredConversation>>}]

NextTransfer ==
  \/ Bootstrap(BackendTransfer)
  \/ Ready /\ HandleExportConversation
  \/ \E i \in Slots, ok \in BOOLEAN, data \in BackendTransfer.snapshots : ExportSettle(i, ok, data)
  \/ Ready /\ \E picked \in ImportFiles : HandleImportConversation(picked)
  \/ \E i \in Slots, ok \in BOOLEAN : ImportReadSettle(i, ok)
  \/ \E i \in Slots, ok \in BOOLEAN : ImportSettle(i, ok)
  \/ \E i \in Slots, ok \in BOOLEAN, convs \in BackendTransfer.catalogs :
       ImportRefreshSettle(i, ok, convs)

SpecTransfer == Init /\ [][NextTransfer]_vars

\* Every operation on the session, made once the application is
\* initialized: submit, switch, clear current, clear all, new, and the loads
\* of the conversationId effect; responses without the optional collections.
BackendSession ==
  [BackendManage EXCEPT !.results = {Null}, !.steps = {Null}, !.sources = {Null}]

NextSession ==
  \/ Bootstrap(BackendSession)
  \/ SubmitReady(BackendSession)
  \/ Ready /\ \E target \in ConversationIds : HandleSwitchConversation(target)
  \/ \E i \in Slots, ok \in BOOLEAN, body \in BackendSession.contexts : SwitchSettle(i, ok, body)
  \/ Ready /\ HandleClearConversation
  \/ \E i \in Slots, ok \in BOOLEAN : ClearSettle(i, ok)
  \/ \E i \in Slots, ok \in BOOLEAN, convs \in BackendSession.catalogs :
       ClearRefreshSettle(i, ok, convs)
  \/ Ready /\ HandleClearAllHistory(TRUE)
  \/ \E i \in Slots, ok \in BOOLEAN : ClearAllSettle(i, ok)
  \/ Ready /\ HandleNewConversation
  \/ \E i \in Slots, ok \in BOOLEAN, convs \in BackendSession.catalogs :
       NewRefreshSettle(i, ok, convs)

SpecSession == Init /\ [][NextSession]_vars

\* A first exchange submitted at any moment from the mount on, as time
\* passes: every response carries the two messages that make
\* handlePromptSubmit call generateTitle.
BackendFirst ==
  [BackendSession EXCEPT !.contexts = {Some(<<"user", "assistant">>)}]

NextFirst ==
  \/ Tick
  \/ Bootstrap(BackendFirst)
  \/ TypePrompt(<<" ", "a">>)
  \/ ClickSend
  \/ \E i \in Slots, context \in BackendFirst.contexts :
       LlmSettleOk(i, context, Null, Null, Null)
  \/ \E i \in Slots, ok \in BOOLEAN : AutoTitleSettle(i, ok)
  \/ \E i \in Slots, ok \in BOOLEAN, convs \in BackendFirst.catalogs :
       TitleRefreshSettle(i, ok, convs)
  \/ \E i \in Slots, ok \in BOOLEAN, convs \in BackendFirst.catalogs :
       RefreshSettle(i, ok, convs)

SpecFirst == Init /\ [][NextFirst]_vars

\* Uploads from the attach button, the sidebar and by drop once the
\* application is initialized; the backend lists one or two documents.
BackendUpload ==
  [Backend EXCEPT !.catalogs = {<<>>}, !.contexts = {Null}, !.details = {Null},
                  !.documents = {<<>>, <<"d1", "d2">>}]

NextUpload ==
  \/ Bootstrap(BackendUpload)
  \/ Ready /\ \E control \in {"attach", "sidebar"} : HandleFilePicker(control, "f1")
  \/ Ready /\ HandleDrop("f2")
  \/ \E i \in Slots : HandleFileUpload(i)
  \/ \E i \in Slots, kind \in {"ok", "request"} : UploadSettle(i, kind, Null, <<"text">>)
  \/ \E i \in Slots, ok \in BOOLEAN, docs \in BackendUpload.documents :
       UploadReloadSettle(i, ok, docs)
  \/ \E i \in Slots, kind \in {"ok", "request"}, docs \in BackendUpload.documents :
       UploadLatestSettle(i, kind, Null, docs)

SpecUpload == Init /\ [][NextUpload]_vars

(* ------------------------------- claims -------------------------------- *)

\* a prompt submission that has not yet received the answer of /api/llm
AwaitingLlm ==
  \E i \in Slots : At(i, "handlePromptSubmit", "documentContent")
                   \/ At(i, "handlePromptSubmit", "llm")

\* the prompt holds no character but blanks
BlankPrompt == \A k \in DOMAIN prompt : prompt[k] = " "

\* C1: once every request of a prompt submission has settled (no
\* handlePromptSubmit is running any more), llmLoading is false, whether the
\* LLM request succeeded or failed and whatever became of the document
\* content, title and catalog requests.
C1_LoadingClearedWhenSettled ==
  Running("handlePromptSubmit") = {} => ~llmLoading

\* a submission has just ended in its catch block and llmLoading is false
C1_Witness ==
  /\ lastStep = "handlePromptSubmit:failed"
  /\ Running("handlePromptSubmit") = {}
  /\ llmError # EmptyText
  /\ ~llmLoading

\* C2: with an empty or blank-only prompt, Ctrl+Enter, the send button,
\* Shift+Enter and the search button issue no request and change no state
\* slot: prompt, conversation id, message list, panels, document slots,
\* catalog, loading flags and error slots all stay as they are.
C2_BlankPromptIsNoOp ==
  [][(BlankPrompt /\ (KeyCtrlEnter \/ ClickSend \/ KeyShiftEnter \/ ClickSearch))
       => UNCHANGED <<session, panels, documents, catalog, loading, errors,
                      toolsMenuOpen, tasks>>]_vars

\* handlePromptSubmit has just returned at its guard on a blank-only prompt
C2_Witness ==
  /\ lastStep = "handlePromptSubmit:ignored"
  /\ prompt = <<" ", " ">>
  /\ ~llmLoading
  /\ FreeSlots(tasks) = Slots

\* C3: when the /api/llm response of a submission arrives, the message list
\* becomes exactly the list the response carries, the empty list when it
\* carries none, whatever the list was before.
C3_HistoryReplacedByResponse ==
  [][lastStep' = "handlePromptSubmit:response" =>
       \A i \in Slots, context \in ContextBodies :
         (\E results \in ResultBodies, steps \in StepBodies, sources \in SourceBodies :
            LlmSettleOk(i, context, results, steps, sources))
         => conversationHistory' = IF context = Null THEN <<>> ELSE Val(context)]_vars

\* a response carrying one message has just replaced the message list
C3_Witness ==
  /\ lastStep = "handlePromptSubmit:response"
  /\ Len(conversationHistory) = 1
  /\ audit.from = conversationId

\* C4: no step of a prompt submission up to and including the failure of its
\* LLM request changes the message list, and the failure leaves llmError
\* non-empty, for a server-reported, a network and a request-construction
\* error alike.
C4_FailureKeepsHistory ==
  [][/\ (KeyCtrlEnter \/ ClickSend
           \/ \E i \in Slots, ok \in BOOLEAN, content \in ContentBodies :
                DocumentContentSettle(i, ok, content))
        => conversationHistory' = conversationHistory
     /\ \A i \in Slots, kind \in ErrorKinds, detail \in Details :
          LlmSettleFail(i, kind, detail)
          => conversationHistory' = conversationHistory /\ llmError' # EmptyText]_vars

\* a submission made on a non-empty message list has just failed
C4_Witness ==
  /\ lastStep = "handlePromptSubmit:failed"
  /\ conversationHistory # <<>>
  /\ llmError # EmptyText

\* C5 as stated: while a submission awaits the answer of /api/llm, search
\* results, reasoning steps, sources and llmError are all cleared.
C5_Original ==
  AwaitingLlm => /\ searchResults = Null
                 /\ reasoningSteps = <<>>
                 /\ sourcesUsed = <<>>
                 /\ llmError = EmptyText

\* C5: a submission with a non-blank prompt clears search results, reasoning
\* steps, sources and llmError before its request is issued; reasoning
\* steps, sources and llmError stay cleared until the answer of /api/llm
\* arrives, and until then search results are set by nothing but the
\* response of a standalone search.
C5_PanelsClearedWhileAwaiting ==
  [][/\ lastStep' = "handlePromptSubmit:started"
          => /\ searchResults' = Null
             /\ reasoningSteps' = <<>>
             /\ sourcesUsed' = <<>>
             /\ llmError' = EmptyText
     /\ AwaitingLlm'
          => /\ reasoningSteps' = <<>>
             /\ sourcesUsed' = <<>>
             /\ llmError' = EmptyText
     /\ (AwaitingLlm /\ AwaitingLlm')
          => \/ searchResults' = searchResults
             \/ searchResults' = Null
             \/ \E i \in Slots, results \in ResultBodies : SearchSettleOk(i, results)]_vars

\* the results of a standalone search have arrived while a submission awaits
\* the answer of /api/llm, the other panels being cleared
C5_Witness ==
  /\ AwaitingLlm
  /\ lastStep = "handleStandaloneSearch:results"
  /\ searchResults = Some(<<"result">>)
  /\ reasoningSteps = <<>>
  /\ sourcesUsed = <<>>
  /\ llmError = EmptyText

\* C6: when handleDeleteDocument(docId) has deleted the document and
\* reloaded the list, selectedDocument and includeDocument are both cleared
\* if docId was the selected document when the handler was invoked, and both
\* unchanged if it was not.
C6_DeleteClearsSelection ==
  [][\A i \in Slots, ok \in BOOLEAN, docs \in DocumentLists :
       DeleteReloadSettle(i, ok, docs)
       => IF tasks[i].sel = tasks[i].arg
            THEN selectedDocument' = Null /\ includeDocument' = FALSE
            ELSE UNCHANGED <<selectedDocument, includeDocument>>]_vars

\* the selected document has just been deleted
C6_Witness ==
  /\ lastStep = "handleDeleteDocument:doneCleared"
  /\ selectedDocument = Null
  /\ ~includeDocument

C8_Original ==
  (FreeSlots(tasks) = Slots /\ audit.switch = "failed") => conversationHistory = <<>>

\* C8: when the own request of handleSwitchConversation failed and every
\* request the switch started has settled, the message list is empty or is
\* the list a request for the conversation switched to returned (the request
\* of the conversationId effect); it is never a list left from the
\* conversation shown before.
C8_FailedSwitchNeverStale ==
  (FreeSlots(tasks) = Slots /\ audit.switch = "failed")
    => conversationHistory = <<>> \/ audit.from = conversationId

\* the handler's request failed, the effect's request then returned messages
C8_Witness ==
  /\ FreeSlots(tasks) = Slots
  /\ audit.switch = "failed"
  /\ lastStep = "loadConversationHistory:loaded"
  /\ conversationHistory # <<>>
  /\ audit.from = conversationId

\* C9: when every request settles, initializeApp returns; when it returns a
\* conversation id is set and the message list is empty, the id is never
\* absent afterwards, and a catalog whose request failed is set to the empty
\* list and stays so until initializeApp returns.
C9_BootstrapEndsUsable ==
  /\ <>(initializing = "done")
  /\ [](initializing = "done" => conversationId # Null)
  /\ [][/\ (initializing # "done" /\ initializing' = "done")
             => conversationId' # Null /\ conversationHistory' = <<>>
        /\ lastStep' = "initializeApp:documentsFailed" => availableDocuments' = <<>>
        /\ lastStep' = "initializeApp:conversationsFailed" => allConversations' = <<>>
        /\ initializing' # "done"
             => /\ initializing # "documents" => UNCHANGED availableDocuments
                /\ initializing = "cacheStats" => UNCHANGED allConversations
        /\ (initializing # "done" /\ initializing' = "done")
             => UNCHANGED <<availableDocuments, allConversations>>]_vars

\* all three requests failed and initializeApp has returned
C9_Witness ==
  /\ initializing = "done"
  /\ lastStep = "initializeApp:doneCacheFailed"
  /\ availableDocuments = <<>>
  /\ allConversations = <<>>
  /\ conversationId # Null
  /\ conversationHistory = <<>>

\* C10: no step of a standalone search, neither its invocation nor the
\* arrival of its response or failure, changes the message list, the
\* conversation id, the prompt, llmLoading or llmError; when the response
\* arrives searchResults becomes the results it carries.
C10_SearchFrame ==
  [][/\ (KeyShiftEnter \/ ClickSearch
           \/ (\E i \in Slots, results \in ResultBodies : SearchSettleOk(i, results))
           \/ (\E i \in Slots, kind \in ErrorKinds, detail \in Details :
                  SearchSettleFail(i, kind, detail)))
        => UNCHANGED <<conversationHistory, conversationId, prompt, llmLoading, llmError>>
     /\ \A i \in Slots, results \in ResultBodies :
          SearchSettleOk(i, results) => searchResults' = results]_vars

\* the results of a search made in a started conversation have arrived
C10_Witness ==
  /\ lastStep = "handleStandaloneSearch:results"
  /\ searchResults = Some(<<"result">>)
  /\ conversationHistory # <<>>
  /\ prompt # EmptyText

\* C11: when the DELETE of handleClearConversation has settled, whether it
\* succeeded or failed, the message list is empty and search results,
\* reasoning steps, sources and llmError are cleared.
C11_ClearIsLocalFirst ==
  lastStep \in {"handleClearConversation:cleared", "handleClearConversation:failed"}
    => /\ conversationHistory = <<>>
       /\ searchResults = Null
       /\ reasoningSteps = <<>>
       /\ sourcesUsed = <<>>
       /\ llmError = EmptyText

\* C12: when the user declines the confirmation of handleClearAllHistory no
\* request is issued and no state slot changes; the delete-all request is
\* issued by a confirmed invocation only; and when the request succeeds the
\* catalog and the message list are empty and the conversation id is a new
\* one made from the current time.
C12_ClearAllAsksFirst ==
  [][/\ HandleClearAllHistory(FALSE)
          => UNCHANGED <<session, panels, documents, catalog, loading, errors,
                         toolsMenuOpen, tasks>>
     /\ Cardinality(Running("handleClearAllHistory")') >
          Cardinality(Running("handleClearAllHistory"))
          => lastStep' = "handleClearAllHistory:started" /\ HandleClearAllHistory(TRUE)
     /\ \A i \in Slots :
          ClearAllSettle(i, TRUE)
          => /\ allConversations' = <<>>
             /\ conversationHistory' = <<>>
             /\ conversationId' = ConversationName(now)]_vars

\* a confirmed clear all has succeeded on a session that had a catalog, at a
\* later time than the one the previous conversation id was made at
C12_Witness ==
  /\ lastStep = "handleClearAllHistory:cleared"
  /\ allConversations = <<>>
  /\ conversationHistory = <<>>
  /\ now > 1
  /\ conversationId = ConversationName(now)

\* C13: handleNewConversation always ends with a conversation id made from
\* the current time, an empty message list, an empty prompt and cleared
\* search results, reasoning steps, sources and llmError, whether its
\* catalog refresh succeeded, failed or was not made; it awaits the catalog
\* refresh exactly when the message list is non-empty at its invocation.
C13_NewConversationResets ==
  [][/\ HandleNewConversation
          => (Len(conversationHistory) > 0
                <=> lastStep' = "handleNewConversation:refreshing")
     /\ ((HandleNewConversation /\ lastStep' = "handleNewConversation:done")
           \/ \E i \in Slots, ok \in BOOLEAN, convs \in Catalogs :
                NewRefreshSettle(i, ok, convs))
          => /\ conversationId' = ConversationName(now)
             /\ conversationHistory' = <<>>
             /\ prompt' = EmptyText
             /\ searchResults' = Null
             /\ reasoningSteps' = <<>>
             /\ sourcesUsed' = <<>>
             /\ llmError' = EmptyText]_vars

\* the catalog refresh of handleNewConversation failed and the new
\* conversation was started all the same
C13_Witness ==
  /\ lastStep = "handleNewConversation:doneRefreshFailed"
  /\ conversationId = ConversationName(now)
  /\ conversationHistory = <<>>
  /\ prompt = EmptyText
  /\ searchResults = Null

\* C14: when the document content request of a submission settles, failed
\* or not, the submission goes on to the LLM request and llmError is not
\* written; after a failure the request body has no document_context; and a
\* request body gets document_context only when the content request
\* succeeded in a submission made with includeDocument set and a document
\* selected.
C14_DocumentFailureDegrades ==
  [][\A i \in Slots :
       /\ \A ok \in BOOLEAN, content \in ContentBodies :
            DocumentContentSettle(i, ok, content)
            => /\ tasks'[i].kind = "handlePromptSubmit" /\ tasks'[i].pc = "llm"
               /\ tasks'[i].req # Null
               /\ ~ok => ~tasks'[i].ctx
               /\ llmError' = llmError
       /\ (tasks'[i].ctx /\ ~tasks[i].ctx)
            => /\ tasks[i].inc /\ tasks[i].sel # Null
               /\ \E content \in ContentBodies : DocumentContentSettle(i, TRUE, content)]_vars

\* the content request of a submission with a selected document has failed
\* and the LLM request is in flight without document_context, no error shown
C14_Witness ==
  /\ lastStep = "getDocumentContent:failed"
  /\ llmError = EmptyText
  /\ llmLoading
  /\ \E i \in Slots : /\ At(i, "handlePromptSubmit", "llm")
                      /\ tasks[i].inc /\ tasks[i].sel # Null
                      /\ ~tasks[i].ctx

\* C15: import. A file that JSON.parse rejects ends the handler with the
\* error alert and no request; every step that ends in the error alert
\* leaves the catalog, the message list and the conversation id as they
\* were; and loadAllConversations is awaited only by the step in which the
\* import request succeeded.
C15_ImportFailureIsClean ==
  [][LET alerts == {"handleImportConversation:alertUnreadable",
                    "handleImportConversation:alertUnparsed",
                    "handleImportConversation:alertRejected"}
     IN /\ \A i \in Slots :
             (At(i, "handleImportConversation", "read") /\ tasks'[i] # tasks[i]
                /\ JSONParse(tasks[i].p) = Null)
               => tasks'[i] = Idle /\ lastStep' \in alerts
        /\ (lastStep' \in alerts /\ tasks' # tasks)
               => UNCHANGED <<allConversations, conversationHistory, conversationId>>
        /\ \A i \in Slots :
             (At(i, "handleImportConversation", "refresh")'
                /\ ~At(i, "handleImportConversation", "refresh"))
               => /\ At(i, "handleImportConversation", "import")
                  /\ lastStep' = "handleImportConversation:imported"
    ]_vars

\* C15 witness: an import request was rejected and reported while the
\* catalog has an entry and a conversation is active
C15_Witness ==
  /\ lastStep = "handleImportConversation:alertRejected"
  /\ allConversations # <<>>
  /\ conversationId # Null

C16_StartedIffMessages ==
  hasStartedConversation = (Len(conversationHistory) > 0)

\* C16 witness: the load of the conversationId effect brought messages into
\* a session that a new conversation or a clear had emptied
C16_Witness ==
  /\ lastStep = "loadConversationHistory:loaded"
  /\ hasStartedConversation
  /\ conversationHistory # <<>>
  /\ conversationId # StoredConversation

\* C17: each of the reasoning, sources and search-results panels is shown
\* exactly when its collection is non-empty (non-null for searchResults),
\* whatever the layout.
C17_PanelsFollowCollections ==
  /\ PanelShown("reasoning") <=> reasoningSteps # <<>>
  /\ PanelShown("sources") <=> sourcesUsed # <<>>
  /\ PanelShown("search") <=> searchResults # Null

\* C19: a submission made while conversationId is null carries one
\* identifier: the conversation_id of its LLM request is the id it stored in
\* the session, and the conversation generateTitle is called with is the
\* conversation of the request.
C19_OneSynthesizedId ==
  \A i \in Slots :
    (tasks[i].kind = "handlePromptSubmit" /\ tasks[i].c = Null)
      => /\ (lastStep = "handlePromptSubmit:started" /\ tasks[i].req # Null)
              => tasks[i].req = conversationId
         /\ tasks[i].tid # Null => tasks[i].tid = tasks[i].req

\* C20: whenever initializeApp has returned and no request is awaited, the
\* message list is empty or is the list the backend returned for the active
\* conversation id.
C20_NoStaleList ==
  (Ready /\ FreeSlots(tasks) = Slots)
    => conversationHistory = <<>> \/ audit.from = conversationId

\* C21: the step that completes a successful deletion (the DELETE resolved
\* and the list was reloaded) never leaves selectedDocument on the document
\* it deleted, whatever was selected while its requests were awaited.
C21_NoDeletedSelection ==
  [][\A i \in Slots :
       (At(i, "handleDeleteDocument", "reload") /\ tasks'[i] = Idle)
         => selectedDocument' # tasks[i].arg]_vars

\* C22: with submissions made from the send button and Ctrl+Enter in the
\* textarea, at most one /api/llm request is awaited at a time, and
\* llmLoading is true while one is awaited.
C22_OneLlmRequest ==
  LET inFlight == {i \in Slots : At(i, "handlePromptSubmit", "llm")}
  IN  /\ Cardinality(inFlight) <= 1
      /\ inFlight # {} => llmLoading

\* C22 witness: a request is awaited with a prompt to send and a slot free
\* for a second handler
C22_Witness ==
  /\ \E i \in Slots : At(i, "handlePromptSubmit", "llm")
  /\ Trim(prompt) # EmptyText
  /\ FreeSlots(tasks) # {}
  /\ llmLoading

\* C23: at most one upload request is awaited at a time, whichever control
\* started it, and docLoading is true while one is awaited.
C23_OneUpload ==
  LET uploading == {i \in Slots : At(i, "handleFileUpload", "upload")}
  IN  /\ Cardinality(uploading) <= 1
      /\ uploading # {} => docLoading

\* C24: the step that takes the /api/llm response goes on to the auto-title
\* call exactly when the list it stored has two messages; and a step in which
\* the auto-title call or a catalog refresh of the submission settled,
\* failed or not, leaves llmError and the message list as they were and has
\* the prompt empty.
C24_TitleIsBestEffort ==
  [][/\ lastStep' = "handlePromptSubmit:response"
          => \A i \in Slots :
               (At(i, "handlePromptSubmit", "llm") /\ tasks'[i] # tasks[i])
                 => (tasks'[i].pc = "autoTitle" <=> Len(conversationHistory') = 2)
     /\ (tasks' # tasks /\ lastStep' \in {"generateTitle:failed", "generateTitle:refreshed",
                                          "handlePromptSubmit:doneRefreshFailed"})
          => /\ UNCHANGED <<llmError, conversationHistory>>
             /\ prompt' = EmptyText
    ]_vars

\* C24 witness: the auto-title call of a first exchange failed, the two
\* messages are kept and the prompt is cleared
C24_Witness ==
  /\ lastStep = "generateTitle:failed"
  /\ Len(conversationHistory) = 2
  /\ llmError = EmptyText
  /\ prompt = EmptyText

\* C25: when handleFileUpload returns after its upload request and both of
\* its document fetches succeeded, selectedDocument is the last document of
\* the list it fetched and includeDocument is true (if that list is not
\* empty), docText is the text its upload returned and docLoading is false;
\* docLoading is false as well after a step in which the upload failed.
C25_UploadSelectsLatest ==
  [][/\ \A i \in Slots, docs \in DocumentLists :
          UploadLatestSettle(i, "ok", Null, docs)
            => /\ docs # <<>> => /\ selectedDocument' = Some(docs[Len(docs)])
                                 /\ includeDocument'
               /\ docText' = tasks[i].p
               /\ ~docLoading'
     /\ (tasks' # tasks /\ lastStep' \in {"handleFileUpload:failed",
                                          "handleFileUpload:failedLatest"})
            => ~docLoading'
    ]_vars

\* C26: a failed /api/llm request writes llmError only, with the text of its
\* kind: "Server error: " and the detail (or the status text) for an error
\* response, "Network error: Unable to reach server" for a request without
\* response, "Request error: " and the exception message otherwise.
C26_LlmErrorKinds ==
  [][\A i \in Slots, kind \in ErrorKinds, detail \in Details :
       LlmSettleFail(i, kind, detail)
         => /\ kind = "response"
                 => llmError' = <<"Server error: ",
                                  IF detail # Null THEN Val(detail) ELSE "statusText">>
            /\ kind = "request" => llmError' = <<"Network error: Unable to reach server">>
            /\ kind = "setup" => llmError' = <<"Request error: ", "message">>
            /\ UNCHANGED <<docError, searchError>>
    ]_vars

\* C26 witness: a submission failed before its request was sent
C26_Witness ==
  /\ lastStep = "handlePromptSubmit:failed"
  /\ llmError = <<"Request error: ", "message">>
  /\ ~llmLoading

(* ------------------------------- C27 ----------------------------------- *)

\* C27 as stated: once a standalone search has failed and settled, the
\* search error slot is non-empty, the search results are absent and
\* searchLoading is false.
C27_Original ==
  lastStep = "handleStandaloneSearch:failed"
    => /\ searchError # EmptyText
       /\ searchResults = Null
       /\ ~searchLoading

\* C27 (amended): a standalone search posts max_results 5; the step that
\* settles a failed search writes a non-empty text to the search error slot,
\* sets searchLoading to false and leaves the search results, the LLM error
\* slot and the document error slot as they were; the step that settles a
\* successful search sets searchLoading to false.
C27_SearchFailureIsLocal ==
  [][/\ \A i \in Slots :
          At(i, "handleStandaloneSearch", "search")'
            /\ ~At(i, "handleStandaloneSearch", "search")
            => tasks'[i].arg = Some(5)
     /\ lastStep' = "handleStandaloneSearch:failed"
          => /\ searchError' # EmptyText
             /\ ~searchLoading'
             /\ UNCHANGED <<searchResults, llmError, docError>>
     /\ lastStep' = "handleStandaloneSearch:results" => ~searchLoading'
    ]_vars

\* a search fails while results set by an LLM response are on display
C27_Witness ==
  /\ lastStep = "handleStandaloneSearch:failed"
  /\ searchError # EmptyText
  /\ searchResults # Null
  /\ ~searchLoading

(* ------------------------------- C28 ----------------------------------- *)

\* C28: no step that settles a failed backend call (the LLM request, a
\* standalone search, an upload, or a fetch of a conversation by
\* loadConversationHistory or handleSwitchConversation) changes the message
\* list.
C28_FailuresKeepList ==
  [][lastStep' \in {"handlePromptSubmit:failed", "handleStandaloneSearch:failed",
                    "handleFileUpload:failed", "handleFileUpload:failedLatest",
                    "loadConversationHistory:failed",
                    "handleSwitchConversation:failed"}
       => conversationHistory' = conversationHistory]_vars

(* ------------------------------- C29 ----------------------------------- *)

\* C29: initializeApp awaits its three fetches one after the other: the
\* document list is written only while the document fetch is awaited, the
\* conversation catalog only while the catalog fetch is awaited, which
\* starts when the document fetch settles; the cache statistics are fetched
\* when the catalog fetch settles; no conversation id exists before the
\* statistics fetch settles, and the step that settles it sets a fresh
\* conversation id and an empty message list, whether the catalog fetched
\* is empty or not.
C29_BootstrapInSequence ==
  [][/\ initializing' # initializing
          => <<initializing, initializing'>> \in
               {<<"documents", "conversations">>,
                <<"conversations", "cacheStats">>,
                <<"cacheStats", "done">>}
     /\ availableDocuments' # availableDocuments => initializing = "documents"
     /\ allConversations' # allConversations => initializing = "conversations"
     /\ initializing' # "done" => conversationId' = Null
     /\ (initializing = "cacheStats" /\ initializing' = "done")
          => /\ conversationId' = <<"conversation_", now>>
             /\ conversationHistory' = <<>>
    ]_vars

\* initializeApp has returned with prior conversations in the catalog and
\* a fresh conversation id
C29_Witness ==
  /\ initializing = "done"
  /\ allConversations # <<>>
  /\ availableDocuments # <<>>
  /\ conversationId # Null
  /\ \A k \in 1..Len(allConversations) :
       allConversations[k] # conversationId

(* ------------------------------- C30 ----------------------------------- *)

\* C30: a step of handlePromptSubmit changes the prompt only by clearing it,
\* and only when the response of its LLM request has arrived (at the
\* response, or once the title generation that follows it has settled); the
\* step that settles a failed LLM request leaves as the prompt the text that
\* was submitted, which is still non-blank; no step of a standalone search
\* changes the prompt.
C30_PromptKeptOnFailure ==
  [][/\ (prompt' # prompt /\ lastStep' # "setPrompt")
          => /\ prompt' = EmptyText
             /\ \E i \in Slots :
                  \/ At(i, "handlePromptSubmit", "llm")
                       /\ lastStep' = "handlePromptSubmit:response"
                  \/ (At(i, "handlePromptSubmit", "autoTitle")
                        \/ At(i, "handlePromptSubmit", "titleRefresh"))
                       /\ At(i, "handlePromptSubmit", "refresh")'
     /\ lastStep' = "handlePromptSubmit:failed"
          => \E i \in Slots :
               /\ At(i, "handlePromptSubmit", "llm")
               /\ tasks'[i] = Idle
               /\ prompt' = tasks[i].p
               /\ Trim(prompt') # EmptyText
     /\ lastStep' \in {"handleStandaloneSearch:started",
                       "handleStandaloneSearch:ignored",
                       "handleStandaloneSearch:results",
                       "handleStandaloneSearch:failed"}
          => prompt' = prompt
    ]_vars

\* a submission has failed and the same text can be sent again
C30_Witness ==
  /\ lastStep = "handlePromptSubmit:failed"
  /\ llmError # EmptyText
  /\ prompt # EmptyText
  /\ SendEnabled

=============================================================================
